---- MODULE Spec2Model ----
(***************************************************************************)
(* The DTX messaging core of libinstruments: DTXConnection (connect,       *)
(* handshake, receive loop, dispatch, acknowledgement, disconnect) and     *)
(* DTXChannel (identifier allocation, synchronous request/reply            *)
(* correlation, cancellation), as concurrent threads over shared state.    *)
(*                                                                         *)
(* Threads: "main" (Connect / Cancel / Disconnect), "rx" (the receive      *)
(* worker started by Connect) and the user threads of Callers (each runs   *)
(* SendMessageSync or MakeChannelWithIdentifier).  A std::mutex is a       *)
(* variable holding its owner; a thread that needs a held mutex has no     *)
(* enabled step.  A critical section that takes no further lock is one     *)
(* step, guarded by the mutex being free.                                  *)
(***************************************************************************)
EXTENDS Integers, Sequences, FiniteSets, TLC

\* ------------------------------------------------------------- bounds
\* Identifiers are uint32_t in the code; the model keeps the wrap-around
\* with a word of IdMod values.
IdMod == 4
\* Frames the receive worker reads from the transport: over the
\* connection's life, and on the established connection of SpecChan.
MaxRecv == 2
MaxChanRecv == 3
MaxMakeRecv == 2
MaxCodeRecv == 1
\* Fragment frames read, and the fragment counts of the messages they
\* belong to.
MaxFragRecv == 6
MaxFragCount == 3
\* Calls of Connect: with user threads at work, and over the whole life
\* of a connection object (SpecLife).
MaxConnects == 1
MaxLifeConnects == 2

\* ------------------------------------------------ program constants
Ack == 0
MethodInvocation == 2
ResponseWithPayload == 3
GlobalCode == 0
FirstChannelCode == 1
Int32Max == 2147483647

CapsSel == "_notifyOfPublishedCapabilities:"
UserSel == "userSelector:"
RequestChannelSel == "_requestChannelWithCode:identifier:"
NoSel == ""

Callers == {"u1", "u2"}
NoThread == "none"

\* Every user thread runs one operation, so at most one channel object per
\* call of Connect and one per user thread is ever constructed.
Objs == 0 .. (MaxConnects + Cardinality(Callers) - 1)
NoObj == 0 - 1
\* The code of a MakeChannelWithIdentifier call that has not taken one.
NoCode == 0 - 1
\* Channel codes: the global channel and the codes m_nextChannelCode can
\* hand out; UnknownCode is a code no channel is ever registered under.
Codes == 0 .. Cardinality(Callers)
UnknownCode == Cardinality(Callers) + 1

\* A message as DispatchMessage sees it.  req is history: the caller whose
\* request the peer answers with this message (NoThread for any other).
Msg(ch, id, conv, type, sel, er, req) ==
    [ch |-> ch, id |-> id, conv |-> conv, type |-> type, sel |-> sel,
     er |-> er, req |-> req]
\* nullptr
Null == Msg(NoObj, 0, 0, 0 - 1, NoSel, FALSE, NoThread)

VARIABLES
    \* DTXConnection
    connected,        \* m_connected
    chanMap,          \* m_channels: code -> channel object (NoObj: absent)
    chanMutex,        \* owner of m_channelsMutex
    nextChannelCode,  \* m_nextChannelCode
    rxThread,         \* m_receiveThread: "none" | "running" | "finished"
    handshakeReceived,\* m_handshakeReceived
    pending,          \* m_fragmentDecoder->m_pending: identifier -> state
    \* DTXTransport
    tOpen,            \* m_connected && m_connection
    lastReadFatal,    \* the last ReadExact ended on a non-transient error
    wire,             \* requests written to the stream, not yet answered
    \* DTXChannel objects
    nextObj,          \* channel objects created so far
    chan,             \* object -> [code, nextId, cancelled, waiters, wmx,
                      \*            methods, handler, mhmx]
    waiter,           \* caller -> its ResponseWaiter [ready, resp, holder, notified]
    \* threads
    caller,           \* user threads: program counter and locals
    rx,               \* receive worker: program counter and locals
    main,             \* the Connect / Disconnect / Cancel call in progress:
                      \* program counter and locals; main.on is the thread
                      \* that runs it ("main", or "rx" for a call made by a
                      \* handler on the receive worker)
    \* history
    lastDelivery,     \* the latest handler invocation
    aborted,          \* std::terminate was called
    \* byte level
    stream,           \* the input stream and DTXTransport::Receive's locals
    codec             \* a conversion: its input and its result

vars == <<connected, chanMap, chanMutex, nextChannelCode, rxThread,
          handshakeReceived, pending, tOpen, lastReadFatal,
          wire, nextObj, chan, waiter, caller, rx, main, lastDelivery, aborted, stream, codec>>

connVars == <<connected, chanMap, chanMutex, nextChannelCode, rxThread,
              handshakeReceived, pending>>
transVars == <<tOpen, lastReadFatal, wire>>

\* ------------------------------------------------------------ helpers
\* A freshly constructed DTXChannel (dtx_channel.h: m_nextIdentifier{1},
\* m_cancelled{false}, empty maps).  methods is the key set of
\* m_methodHandlers, handler whether m_messageHandler is set, wmx and mhmx
\* the owners of m_waitersMutex and m_methodHandlerMutex.
NewChannel(code) ==
    [code |-> code, nextId |-> 1, cancelled |-> FALSE, waiters |-> {},
     wmx |-> NoThread, methods |-> {}, handler |-> FALSE,
     mhmx |-> NoThread]

NewWaiter == [ready |-> FALSE, resp |-> Null, holder |-> NoThread,
              notified |-> FALSE]

\* m_waiters[msgId] = waiter: std::map assignment replaces an entry.
PutWaiter(ws, id, t) == {w \in ws : w.id # id} \cup {[id |-> id, t |-> t]}
\* m_waiters.erase(msgId)
EraseWaiter(ws, id) == {w \in ws : w.id # id}
\* m_waiters.find(id)
HasWaiter(ws, id) == \E w \in ws : w.id = id
FindWaiter(ws, id) == (CHOOSE w \in ws : w.id = id).t

Min(S) == CHOOSE x \in S : \A y \in S : x <= y

\* No input stream is attached and no conversion is in progress.
StreamIdle ==
    [bytes |-> <<>>, pc |-> "idle", buf |-> <<>>, scanned |-> 0,
     res |-> <<>>, exhausted |-> FALSE, out |-> <<>>, sent |-> <<>>,
     noise |-> <<>>]

CodecIdle == [op |-> "none", in |-> <<>>, out |-> <<>>, done |-> FALSE]

\* DTXConnection::SendMessage -> DTXTransport::SendMessage -> Send: the
\* frame reaches the stream when the connection flag and the transport are
\* both up and the write itself succeeds.
CanWrite == connected /\ tOpen

NoDelivery == [kind |-> "none", msg |-> Null, obj |-> NoObj]

\* err: the Error a call hands to its caller ("none": the call returns no
\* Error value).
CallerIdle == [pc |-> "idle", op |-> "none", ch |-> NoObj, id |-> 0,
               got |-> FALSE, res |-> Null, code |-> NoCode, newCh |-> NoObj,
               timedOut |-> FALSE, sent |-> FALSE, ok |-> FALSE,
               err |-> "none"]

\* body: the bytes Decode was given for msg.
RxIdle == [pc |-> "off", msg |-> Null, ch |-> NoObj, tgt |-> NoThread,
           n |-> 0, acks |-> 0, ack |-> Null, ackTried |-> FALSE,
           fatal |-> FALSE, body |-> <<>>]

MainIdle == [pc |-> "ready", was |-> FALSE, todo |-> {}, cch |-> NoObj,
             rem |-> {}, ret |-> "ready", after |-> "ready",
             res |-> "none", err |-> "none", hsNotified |-> FALSE,
             connects |-> 0, hsSeen |-> FALSE, on |-> "main"]

Init ==
    /\ connected = FALSE
    /\ chanMap = [c \in Codes |-> NoObj]
    /\ chanMutex = NoThread
    /\ nextChannelCode = FirstChannelCode
    /\ rxThread = "none"
    /\ handshakeReceived = FALSE
    /\ pending = {}
    /\ tOpen = TRUE
    /\ lastReadFatal = FALSE
    /\ wire = {}
    /\ nextObj = 0
    /\ chan = [o \in Objs |-> NewChannel(NoObj)]
    /\ waiter = [t \in Callers |-> NewWaiter]
    /\ caller = [t \in Callers |-> CallerIdle]
    /\ rx = RxIdle
    /\ main = MainIdle
    /\ lastDelivery = NoDelivery
    /\ aborted = FALSE
    /\ stream = StreamIdle
    /\ codec = CodecIdle


\* =================================================================
\* DTXChannel::SendMessageSync, run by user thread t on channel object
\* caller[t].ch
\* =================================================================
SetPc(t, p) == [caller EXCEPT ![t].pc = p]

\* The request frame SendMessageSync puts on the stream.
Request(t) ==
    Msg(chan[caller[t].ch].code, caller[t].id, 0, MethodInvocation,
        IF caller[t].op = "make" THEN RequestChannelSel ELSE UserSel,
        TRUE, t)

\* A SendMessageSync that does not look at m_cancelled.
SS_CheckNothing(t) ==
    /\ ~aborted
    /\ caller[t].pc = "ss_check"
    /\ caller' = SetPc(t, "ss_alloc")
    /\ waiter' = [waiter EXCEPT ![t] = NewWaiter]
    /\ UNCHANGED <<connVars, transVars, nextObj, chan, rx, main,
                   lastDelivery, aborted, stream, codec>>
\* if (m_cancelled.load()) return nullptr;
SS_Check(t) ==
    /\ ~aborted
    /\ caller[t].pc = "ss_check"
    /\ IF chan[caller[t].ch].cancelled
         THEN caller' = [caller EXCEPT ![t].pc = "ss_ret", ![t].res = Null]
         ELSE caller' = SetPc(t, "ss_alloc")
    /\ waiter' = [waiter EXCEPT ![t] = NewWaiter]
    /\ UNCHANGED <<connVars, transVars, nextObj, chan, rx, main,
                   lastDelivery, aborted, stream, codec>>

\* uint32_t DTXChannel::NextIdentifier(): m_nextIdentifier.fetch_add(1)
NextIdentifier(o) == [chan EXCEPT ![o].nextId = (chan[o].nextId + 1) % IdMod]

\* uint32_t msgId = NextIdentifier();
SS_Alloc(t) ==
    /\ ~aborted
    /\ caller[t].pc = "ss_alloc"
    /\ caller' = [caller EXCEPT ![t].pc = "ss_reg",
                                ![t].id = chan[caller[t].ch].nextId]
    /\ chan' = NextIdentifier(caller[t].ch)
    /\ UNCHANGED <<connVars, transVars, nextObj, waiter, rx, main,
                   lastDelivery, aborted, stream, codec>>

\* { lock(m_waitersMutex); m_waiters[msgId] = waiter; }
SS_Register(t) ==
    LET o == caller[t].ch IN
    /\ ~aborted
    /\ caller[t].pc = "ss_reg"
    /\ chan[o].wmx = NoThread
    /\ chan' = [chan EXCEPT ![o].waiters = PutWaiter(@, caller[t].id, t)]
    /\ caller' = SetPc(t, "ss_send")
    /\ UNCHANGED <<connVars, transVars, nextObj, waiter, rx, main,
                   lastDelivery, aborted, stream, codec>>

\* DTXConnection::SendMessage (dtx_connection.cpp:184) and
\* DTXTransport::Send (dtx_transport.cpp:204): ConnectionFailed when the
\* connection flag or the transport is down; a failing
\* idevice_connection_send marks the transport not connected.
Written(writeOk) == CanWrite /\ writeOk
TransportSend(f, writeOk) ==
    /\ wire' = IF Written(writeOk) /\ f.req # NoThread
                 THEN wire \cup {f} ELSE wire
    /\ tOpen' = IF CanWrite /\ ~writeOk THEN FALSE ELSE tOpen
    /\ UNCHANGED lastReadFatal

\* Error err = m_connection->SendMessage(message);
SS_Send(t, writeOk) ==
    /\ ~aborted
    /\ caller[t].pc = "ss_send"
    /\ TransportSend(Request(t), writeOk)
    /\ caller' = IF Written(writeOk)
                   THEN [caller EXCEPT ![t].pc = "ss_wait", ![t].sent = TRUE]
                   ELSE SetPc(t, "ss_senderr")
    /\ UNCHANGED <<connVars, nextObj, chan, waiter, rx, main,
                   lastDelivery, aborted, stream, codec>>

\* if (err != Success) { lock(m_waitersMutex); m_waiters.erase(msgId); return nullptr; }
SS_SendErr(t) ==
    LET o == caller[t].ch IN
    /\ ~aborted
    /\ caller[t].pc = "ss_senderr"
    /\ chan[o].wmx = NoThread
    /\ chan' = [chan EXCEPT ![o].waiters = EraseWaiter(@, caller[t].id)]
    /\ caller' = [caller EXCEPT ![t].pc = "ss_ret", ![t].res = Null]
    /\ UNCHANGED <<connVars, transVars, nextObj, waiter, rx, main,
                   lastDelivery, aborted, stream, codec>>

\* The wait_for predicate: waiter->ready || m_cancelled.load()
WaitPred(t) == waiter[t].ready \/ chan[caller[t].ch].cancelled

\* unique_lock lock(waiter->mutex); wait_for(...): the predicate is tested
\* first; the thread blocks (releasing the mutex) only when it is false.
SS_Wait(t) ==
    /\ ~aborted
    /\ caller[t].pc = "ss_wait"
    /\ waiter[t].holder = NoThread
    /\ IF WaitPred(t)
         THEN /\ waiter' = [waiter EXCEPT ![t].holder = t]
              /\ caller' = [caller EXCEPT ![t].pc = "ss_woke", ![t].got = TRUE]
         ELSE /\ waiter' = [waiter EXCEPT ![t].notified = FALSE]
              /\ caller' = SetPc(t, "ss_blocked")
    /\ UNCHANGED <<connVars, transVars, nextObj, chan, rx, main,
                   lastDelivery, aborted, stream, codec>>

\* cv.notify_all() reached the blocked thread: it re-takes waiter->mutex and
\* tests the predicate again.
SS_Notified(t) ==
    /\ ~aborted
    /\ caller[t].pc = "ss_blocked"
    /\ waiter[t].notified
    /\ waiter[t].holder = NoThread
    /\ IF WaitPred(t)
         THEN /\ waiter' = [waiter EXCEPT ![t].holder = t, ![t].notified = FALSE]
              /\ caller' = [caller EXCEPT ![t].pc = "ss_woke", ![t].got = TRUE]
         ELSE /\ waiter' = [waiter EXCEPT ![t].notified = FALSE]
              /\ UNCHANGED caller
    /\ UNCHANGED <<connVars, transVars, nextObj, chan, rx, main,
                   lastDelivery, aborted, stream, codec>>

\* timeoutMs elapsed: wait_for re-takes waiter->mutex and returns the
\* predicate's value.
SS_Timeout(t) ==
    /\ ~aborted
    /\ caller[t].pc = "ss_blocked"
    /\ waiter[t].holder = NoThread
    /\ waiter' = [waiter EXCEPT ![t].holder = t, ![t].notified = FALSE]
    /\ caller' = [caller EXCEPT ![t].pc = "ss_woke", ![t].got = WaitPred(t),
                                ![t].timedOut = TRUE]
    /\ UNCHANGED <<connVars, transVars, nextObj, chan, rx, main,
                   lastDelivery, aborted, stream, codec>>

\* if (!gotResponse || m_cancelled.load()) -- still holding waiter->mutex.
SS_Woke(t) ==
    /\ ~aborted
    /\ caller[t].pc = "ss_woke"
    /\ IF ~caller[t].got \/ chan[caller[t].ch].cancelled
         THEN /\ caller' = SetPc(t, "ss_erase")
              /\ UNCHANGED waiter
         ELSE /\ caller' = SetPc(t, "ss_cleanup")
              /\ waiter' = [waiter EXCEPT ![t].holder = NoThread]
    /\ UNCHANGED <<connVars, transVars, nextObj, chan, rx, main,
                   lastDelivery, aborted, stream, codec>>

\* The timeout/cancel return without its m_waiters.erase(msgId).
SS_EraseNothing(t) ==
    /\ ~aborted
    /\ caller[t].pc = "ss_erase"
    /\ chan[caller[t].ch].wmx = NoThread
    /\ waiter' = [waiter EXCEPT ![t].holder = NoThread]
    /\ caller' = [caller EXCEPT ![t].pc = "ss_ret", ![t].res = Null]
    /\ UNCHANGED <<connVars, transVars, nextObj, chan, rx, main,
                   lastDelivery, aborted, stream, codec>>
\* { lock_guard wlock(m_waitersMutex); m_waiters.erase(msgId); return nullptr; }
\* taken while waiter->mutex is held (dtx_channel.cpp:104).
SS_Erase(t) ==
    LET o == caller[t].ch IN
    /\ ~aborted
    /\ caller[t].pc = "ss_erase"
    /\ chan[o].wmx = NoThread
    /\ chan' = [chan EXCEPT ![o].waiters = EraseWaiter(@, caller[t].id)]
    /\ waiter' = [waiter EXCEPT ![t].holder = NoThread]
    /\ caller' = [caller EXCEPT ![t].pc = "ss_ret", ![t].res = Null]
    /\ UNCHANGED <<connVars, transVars, nextObj, rx, main,
                   lastDelivery, aborted, stream, codec>>

\* { lock(m_waitersMutex); m_waiters.erase(msgId); } return waiter->response;
SS_Cleanup(t) ==
    LET o == caller[t].ch IN
    /\ ~aborted
    /\ caller[t].pc = "ss_cleanup"
    /\ chan[o].wmx = NoThread
    /\ chan' = [chan EXCEPT ![o].waiters = EraseWaiter(@, caller[t].id)]
    /\ caller' = [caller EXCEPT ![t].pc = "ss_ret", ![t].res = waiter[t].resp]
    /\ UNCHANGED <<connVars, transVars, nextObj, waiter, rx, main,
                   lastDelivery, aborted, stream, codec>>

\* W: the outcomes the stream allows a write (TRUE: the bytes go out).
SendMessageSync(t, W) ==
    \/ SS_Check(t) \/ SS_Alloc(t) \/ SS_Register(t)
    \/ \E writeOk \in W : SS_Send(t, writeOk)
    \/ SS_SendErr(t) \/ SS_Wait(t) \/ SS_Notified(t) \/ SS_Timeout(t)
    \/ SS_Woke(t) \/ SS_Erase(t) \/ SS_Cleanup(t)

\* =================================================================
\* DTXChannel::SendMessageAsync(message), run by user thread t on channel
\* object caller[t].ch.  The function is void.
\* =================================================================
\* if (m_cancelled.load()) return;
SA_Check(t) ==
    /\ ~aborted
    /\ caller[t].pc = "sa_check"
    /\ caller' = SetPc(t, IF chan[caller[t].ch].cancelled
                            THEN "done" ELSE "sa_alloc")
    /\ UNCHANGED <<connVars, transVars, nextObj, chan, waiter, rx, main,
                   lastDelivery, aborted, stream, codec>>

\* uint32_t msgId = NextIdentifier(); message->SetExpectsReply(false);
SA_Alloc(t) ==
    /\ ~aborted
    /\ caller[t].pc = "sa_alloc"
    /\ caller' = [caller EXCEPT ![t].pc = "sa_send",
                                ![t].id = chan[caller[t].ch].nextId]
    /\ chan' = NextIdentifier(caller[t].ch)
    /\ UNCHANGED <<connVars, transVars, nextObj, waiter, rx, main,
                   lastDelivery, aborted, stream, codec>>

\* m_connection->SendMessage(message);  -- the Error it returns is dropped
\* and the function returns.
SA_Send(t, writeOk) ==
    /\ ~aborted
    /\ caller[t].pc = "sa_send"
    /\ TransportSend(Msg(chan[caller[t].ch].code, caller[t].id, 0,
                         MethodInvocation, UserSel, FALSE, NoThread), writeOk)
    /\ caller' = [caller EXCEPT ![t].pc = "done",
                                ![t].sent = Written(writeOk)]
    /\ UNCHANGED <<connVars, nextObj, chan, waiter, rx, main,
                   lastDelivery, aborted, stream, codec>>

SendMessageAsync(t, W) ==
    \/ SA_Check(t) \/ SA_Alloc(t)
    \/ \E writeOk \in W : SA_Send(t, writeOk)

\* =================================================================
\* DTXChannel::Cancel, run by the main thread on channel object main.cch;
\* it returns to main.ret
\* =================================================================
\* if (m_cancelled.exchange(true)) return;
CN_Exchange ==
    /\ ~aborted
    /\ main.pc = "cn_xchg"
    /\ chan' = [chan EXCEPT ![main.cch].cancelled = TRUE]
    /\ main' = [main EXCEPT !.pc = IF chan[main.cch].cancelled
                                     THEN main.ret ELSE "cn_lock"]
    /\ UNCHANGED <<connVars, transVars, nextObj, waiter, caller, rx,
                   lastDelivery, aborted, stream, codec>>

\* lock_guard lock(m_waitersMutex); for (auto& [id, waiter] : m_waiters)
CN_Lock ==
    /\ ~aborted
    /\ main.pc = "cn_lock"
    /\ chan[main.cch].wmx = NoThread
    /\ chan' = [chan EXCEPT ![main.cch].wmx = "main"]
    /\ main' = [main EXCEPT !.pc = "cn_iter",
                            !.rem = {w.id : w \in chan[main.cch].waiters}]
    /\ UNCHANGED <<connVars, transVars, nextObj, waiter, caller, rx,
                   lastDelivery, aborted, stream, codec>>

\* One iteration: { lock_guard wlock(waiter->mutex); waiter->ready = true;
\* waiter->cv.notify_all(); } -- or, past the last entry, the unlock of
\* m_waitersMutex and the return.
CN_Iter ==
    /\ ~aborted
    /\ main.pc = "cn_iter"
    /\ IF main.rem = {}
         THEN /\ chan' = [chan EXCEPT ![main.cch].wmx = NoThread]
              /\ main' = [main EXCEPT !.pc = main.ret]
              /\ UNCHANGED waiter
         ELSE LET id == Min(main.rem)
                  w == FindWaiter(chan[main.cch].waiters, id) IN
              /\ waiter[w].holder = NoThread
              /\ waiter' = [waiter EXCEPT ![w].ready = TRUE,
                              ![w].notified = (caller[w].pc = "ss_blocked")]
              /\ main' = [main EXCEPT !.rem = main.rem \ {id}]
              /\ UNCHANGED chan
    /\ UNCHANGED <<connVars, transVars, nextObj, caller, rx,
                   lastDelivery, aborted, stream, codec>>

Cancel == CN_Exchange \/ CN_Lock \/ CN_Iter

\* =================================================================
\* DTXChannel::DispatchMessage, run by the receive worker on channel
\* object rx.ch with message rx.msg
\* =================================================================
\* The handler DispatchMessage picks for a message that resolved no waiter
\* (dtx_channel.cpp:198-221): the selector's method handler if registered,
\* else the generic message handler if set.
ChannelHandlerFor(m, mh, dh) ==
    IF m.sel # NoSel /\ mh THEN "method"
    ELSE IF dh THEN "default"
    ELSE "none"

Deliver(kind, o) ==
    /\ lastDelivery' = IF kind = "none" THEN lastDelivery
                       ELSE [kind |-> kind, msg |-> rx.msg, obj |-> o]
    /\ rx' = [rx EXCEPT !.pc = "rx_loop"]

\* if (m_cancelled.load()) return;  -- then, for convIdx == 0, straight to
\* the handlers.
CD_Check ==
    /\ ~aborted
    /\ rx.pc = "cd_check"
    /\ IF chan[rx.ch].cancelled
         THEN rx' = [rx EXCEPT !.pc = "rx_loop"]
         ELSE IF rx.msg.conv > 0
           THEN rx' = [rx EXCEPT !.pc = "cd_find"]
           ELSE rx' = [rx EXCEPT !.pc = "cd_handlers"]
    /\ UNCHANGED <<connVars, transVars, nextObj, chan, waiter, caller, main,
                   lastDelivery, aborted, stream, codec>>

\* if (convIdx > 0) { lock_guard lock(m_waitersMutex);
\*   auto it = m_waiters.find(message->Identifier()); if (it != end) ...
\* With no waiter under the identifier the block ends and the code goes on
\* to the handlers.
CD_Find ==
    /\ ~aborted
    /\ rx.pc = "cd_find"
    /\ chan[rx.ch].wmx = NoThread
    /\ IF HasWaiter(chan[rx.ch].waiters, rx.msg.id)
         THEN /\ chan' = [chan EXCEPT ![rx.ch].wmx = "rx"]
              /\ rx' = [rx EXCEPT !.pc = "cd_fulfil",
                          !.tgt = FindWaiter(chan[rx.ch].waiters, rx.msg.id)]
         ELSE /\ rx' = [rx EXCEPT !.pc = "cd_handlers"]
              /\ UNCHANGED chan
    /\ UNCHANGED <<connVars, transVars, nextObj, waiter, caller, main,
                   lastDelivery, aborted, stream, codec>>

\* lock_guard wlock(waiter->mutex); waiter->response = message;
\* waiter->ready = true; waiter->cv.notify_all(); return;
CD_Fulfil ==
    /\ ~aborted
    /\ rx.pc = "cd_fulfil"
    /\ waiter[rx.tgt].holder = NoThread
    /\ waiter' = [waiter EXCEPT ![rx.tgt].resp = rx.msg,
                                ![rx.tgt].ready = TRUE,
                                ![rx.tgt].notified = (caller[rx.tgt].pc = "ss_blocked")]
    /\ chan' = [chan EXCEPT ![rx.ch].wmx = NoThread]
    /\ rx' = [rx EXCEPT !.pc = "rx_loop", !.tgt = NoThread]
    /\ lastDelivery' = [kind |-> "waiter", msg |-> rx.msg, obj |-> rx.ch]
    /\ UNCHANGED <<connVars, transVars, nextObj, caller, main, aborted, stream, codec>>

\* The method-handler lookup and the generic handler (dtx_channel.cpp:198-221).
\* SetMethodHandler and SetMessageHandler may run at any time, so what the
\* lookups find is the environment's choice: mh, a handler is registered
\* for the message's selector; dh, m_messageHandler is set.
CD_Handlers ==
    /\ ~aborted
    /\ rx.pc = "cd_handlers"
    /\ \E mh, dh \in BOOLEAN :
         Deliver(ChannelHandlerFor(rx.msg, mh, dh), rx.ch)
    /\ UNCHANGED <<connVars, transVars, nextObj, chan, waiter, caller, main,
                   aborted, stream, codec>>

ChannelDispatch == CD_Check \/ CD_Find \/ CD_Fulfil \/ CD_Handlers

\* =================================================================
\* What the peer can put on the stream
\* =================================================================
PeerIds == {1, IdMod - 1}
PeerCodes == {GlobalCode, UnknownCode}

\* Server-originated messages (conversation_index 0): the capabilities
\* message, method invocations that do and do not expect a reply, and an
\* Ack-typed frame.
ServerMsgs ==
    {Msg(GlobalCode, 1, 0, MethodInvocation, CapsSel, e, NoThread) :
        e \in BOOLEAN}
    \cup {Msg(c, i, 0, MethodInvocation, UserSel, i = 1, NoThread) :
        c \in PeerCodes, i \in PeerIds}
    \cup {Msg(GlobalCode, 1, 0, Ack, NoSel, FALSE, NoThread)}

\* Answers to the requests written so far: a response (whose payload may or
\* may not decode to a string) or an Ack, with the request's identifier and
\* channel code and conversation_index 1.
ReplyMsgs ==
    {Msg(r.ch, r.id, 1, ResponseWithPayload, NoSel, FALSE, r.req) :
        r \in wire}
    \cup {Msg(r.ch, r.id, 1, Ack, NoSel, FALSE, r.req) : r \in wire}
\* The request a frame answers.
Answered(m) == {r \in wire : r.req = m.req /\ r.id = m.id /\ m.conv > 0}

\* A frame as Receive returns it: header fields and the bytes after the
\* header.
DataFrame(m, fidx, fcnt, data) ==
    [m |-> m, fidx |-> fidx, fcnt |-> fcnt, data |-> data]
Frame(m, fidx, fcnt) == DataFrame(m, fidx, fcnt, <<>>)
\* Fragmented messages, one per identifier: fragment 0 is header-only,
\* fragment i > 0 carries i bytes that name the message and the fragment.
FragMsg(id) == Msg(GlobalCode, id, 0, MethodInvocation, UserSel, FALSE, NoThread)
FragData(id, i) == [k \in 1 .. i |-> 16 * id + i]
FragFrames ==
    {DataFrame(FragMsg(id), i, n, FragData(id, i)) :
        id \in PeerIds, i \in 0 .. (MaxFragCount - 1), n \in 2 .. MaxFragCount}
PeerFrames == {Frame(m, 0, 1) : m \in ServerMsgs \cup ReplyMsgs}

\* =================================================================
\* DTXFragmentDecoder
\* =================================================================
\* m_pending[identifier]: operator[] default-constructs a missing entry.
PendingEntry(id) ==
    IF \E e \in pending : e.id = id
      THEN CHOOSE e \in pending : e.id = id
      ELSE [id |-> id, expectedCount |-> 0, receivedCount |-> 0, idxs |-> {},
            fragments |-> <<>>]

\* DTXFragmentDecoder::AddFragment: the entry after the call.  fragments is
\* the std::map from fragment index to bytes, idxs its key set.
AddFragmentEntry(id, fidx, fcnt, data) ==
    LET st == PendingEntry(id) IN
    IF fidx = 0
      THEN [st EXCEPT !.expectedCount = fcnt, !.receivedCount = 1]
      ELSE [st EXCEPT !.idxs = @ \cup {fidx}, !.receivedCount = @ + 1,
                      !.fragments = [i \in st.idxs \cup {fidx} |->
                                       IF i = fidx THEN data
                                       ELSE st.fragments[i]]]

\* ... and its return value.
AddFragmentComplete(id, fidx, fcnt, data) ==
    LET st == AddFragmentEntry(id, fidx, fcnt, data) IN
    IF fidx = 0 THEN fcnt = 1 ELSE st.receivedCount >= st.expectedCount

\* The fragments of an entry joined from the highest index down.
RECURSIVE GetAssembledDataDescending(_)
GetAssembledDataDescending(st) ==
    IF st.idxs = {} THEN <<>>
    ELSE LET i == CHOOSE x \in st.idxs : \A y \in st.idxs : x >= y IN
         st.fragments[i]
           \o GetAssembledDataDescending([st EXCEPT !.idxs = @ \ {i}])
\* DTXFragmentDecoder::GetAssembledData: the std::map is walked in key
\* order, lowest index first.
RECURSIVE GetAssembledData(_)
GetAssembledData(st) ==
    IF st.idxs = {} THEN <<>>
    ELSE LET i == Min(st.idxs) IN
         st.fragments[i] \o GetAssembledData([st EXCEPT !.idxs = @ \ {i}])

\* =================================================================
\* DTXConnection::ReceiveLoop and DTXConnection::DispatchMessage,
\* run by the receive worker
\* =================================================================
\* m_channels.find(channelCode)
Lookup(code) == IF code \in Codes THEN chanMap[code] ELSE NoObj

NeedsAck(m) == m.type # Ack /\ m.conv = 0 /\ m.er
\* A test that takes the capabilities message only as a reply.
IsHandshakeAsReply(m) == m.sel = CapsSel /\ m.ch = GlobalCode /\ m.conv = 1
\* isHandshake (dtx_connection.cpp:379-381)
IsHandshake(m) == m.sel = CapsSel /\ m.ch = GlobalCode /\ m.conv = 0

\* An Ack that repeats the received conversation index instead of
\* answering it.
CreateAckSameConversation(id, ch, conv) ==
    Msg(ch, id, conv, Ack, NoSel, FALSE, NoThread)
\* DTXMessage::CreateAck(identifier, channelCode, conversationIndex)
CreateAck(id, ch, conv) == Msg(ch, id, conv + 1, Ack, NoSel, FALSE, NoThread)

\* Where DispatchMessage goes after the identifier synchronisation.
AfterSync(m) ==
    IF NeedsAck(m) THEN "dm_ack"
    ELSE IF IsHandshake(m) THEN "dm_hs" ELSE "dm_route"

\* while (m_connected.load()).  The locals of the previous iteration and
\* the record of its handler invocation go out of scope here.
RX_Loop ==
    LET fresh == [rx EXCEPT !.msg = Null, !.ch = NoObj, !.acks = 0,
                            !.ack = Null, !.ackTried = FALSE, !.body = <<>>]
    IN
    /\ ~aborted
    /\ rx.pc = "rx_loop"
    /\ IF connected
         THEN /\ rx' = [fresh EXCEPT !.pc = "rx_recv"]
              /\ UNCHANGED rxThread
         ELSE /\ rx' = [fresh EXCEPT !.pc = "exited"]
              /\ rxThread' = "finished"
    /\ lastDelivery' = NoDelivery
    /\ UNCHANGED <<connected, chanMap, chanMutex, nextChannelCode,
                   handshakeReceived, pending, transVars,
                   nextObj, chan, waiter, caller, main, aborted, stream, codec>>

\* m_transport->Receive() returns a frame; fragments go through the
\* decoder, a complete message goes to DispatchMessage.
RX_RecvFrame(f) ==
    LET complete ==
            f.fcnt > 1 => AddFragmentComplete(f.m.id, f.fidx, f.fcnt, f.data)
        entry == AddFragmentEntry(f.m.id, f.fidx, f.fcnt, f.data)
        started == [rx EXCEPT !.msg = f.m, !.n = @ + 1,
                              !.body = IF f.fcnt > 1
                                         THEN GetAssembledData(entry)
                                         ELSE f.data,
                              !.pc = IF f.m.conv = 0 THEN "dm_sync"
                                     ELSE AfterSync(f.m)]
    IN
    /\ ~aborted
    /\ rx.pc = "rx_recv"
    /\ tOpen
    /\ lastReadFatal' = FALSE
    /\ pending' =
         IF f.fcnt > 1
           THEN IF complete
                  THEN {e \in pending : e.id # f.m.id}
                  ELSE {e \in pending : e.id # f.m.id}
                       \cup {entry}
           ELSE pending
    /\ rx' = IF complete THEN started
             ELSE [rx EXCEPT !.pc = "rx_loop", !.n = @ + 1]
    /\ wire' = wire \ Answered(f.m)
    /\ UNCHANGED <<connected, chanMap, chanMutex, nextChannelCode, rxThread,
                   handshakeReceived, tOpen,
                   nextObj, chan, waiter, caller, main, lastDelivery, aborted, stream, codec>>

\* ReadExact fails on a non-transient error: the transport is marked not
\* connected, Receive returns empty, and the loop clears m_connected and
\* ends (dtx_connection.cpp:226-233).
RX_RecvError ==
    /\ ~aborted
    /\ rx.pc = "rx_recv"
    /\ tOpen
    /\ tOpen' = FALSE
    /\ lastReadFatal' = TRUE
    /\ connected' = FALSE
    /\ rxThread' = "finished"
    /\ rx' = [rx EXCEPT !.pc = "exited", !.fatal = TRUE]
    /\ UNCHANGED <<chanMap, chanMutex, nextChannelCode, handshakeReceived,
                   pending, wire, nextObj, chan, waiter,
                   caller, main, lastDelivery, aborted, stream, codec>>

\* The transport is already not connected: ReadExact returns false at its
\* first test and leaves the last-read record as it was, so the loop
\* classifies the empty result by the previous read.
RX_RecvClosed ==
    /\ ~aborted
    /\ rx.pc = "rx_recv"
    /\ ~tOpen
    /\ IF lastReadFatal
         THEN /\ connected' = FALSE
              /\ rxThread' = "finished"
              /\ rx' = [rx EXCEPT !.pc = "exited"]
         ELSE /\ rx' = [rx EXCEPT !.pc = "rx_loop"]
              /\ UNCHANGED <<connected, rxThread>>
    /\ UNCHANGED <<chanMap, chanMutex, nextChannelCode, handshakeReceived,
                   pending, transVars, nextObj, chan, waiter,
                   caller, main, lastDelivery, aborted, stream, codec>>

\* if (ConversationIndex() == 0) { find the channel under m_channelsMutex;
\* channel->SyncIdentifier(id): uint32_t current = m_nextIdentifier.load();
\* if (receivedId >= current) ... }
DM_Sync ==
    LET o == Lookup(rx.msg.ch) IN
    /\ ~aborted
    /\ rx.pc = "dm_sync"
    /\ chanMutex = NoThread
    /\ IF o # NoObj /\ rx.msg.id >= chan[o].nextId
         THEN rx' = [rx EXCEPT !.pc = "si_store", !.ch = o]
         ELSE rx' = [rx EXCEPT !.pc = AfterSync(rx.msg)]
    /\ UNCHANGED <<connVars, transVars, nextObj, chan, waiter, caller, main,
                   lastDelivery, aborted, stream, codec>>

\* DTXChannel::SyncIdentifier, second half: m_nextIdentifier.store(receivedId + 1)
SyncIdentifierStore(o, receivedId) ==
    [chan EXCEPT ![o].nextId = (receivedId + 1) % IdMod]

SI_Store ==
    /\ ~aborted
    /\ rx.pc = "si_store"
    /\ chan' = SyncIdentifierStore(rx.ch, rx.msg.id)
    /\ rx' = [rx EXCEPT !.pc = AfterSync(rx.msg), !.ch = NoObj]
    /\ UNCHANGED <<connVars, transVars, nextObj, waiter, caller, main,
                   lastDelivery, aborted, stream, codec>>

\* SendAck(message->Identifier(), message->ChannelCode(),
\*         message->ConversationIndex());
DM_Ack(writeOk) ==
    LET ack == CreateAck(rx.msg.id, rx.msg.ch, rx.msg.conv) IN
    /\ ~aborted
    /\ rx.pc = "dm_ack"
    /\ TransportSend(ack, writeOk)
    /\ rx' = [rx EXCEPT !.ackTried = TRUE,
                        !.acks = IF Written(writeOk) THEN @ + 1 ELSE @,
                        !.ack = IF Written(writeOk) THEN ack ELSE @,
                        !.pc = IF IsHandshake(rx.msg) THEN "dm_hs"
                               ELSE "dm_route"]
    /\ UNCHANGED <<connVars, nextObj, chan, waiter, caller, main,
                   lastDelivery, aborted, stream, codec>>

\* Where Connect stands between the start of the worker and the end of the
\* handshake wait.
HandshakePcs == {"h_reset", "h_send", "h_wait", "h_blocked"}

\* if (isHandshake) { lock(m_handshakeMutex); m_handshakeReceived.store(true);
\*                    m_handshakeCV.notify_one(); return; }
DM_Handshake ==
    /\ ~aborted
    /\ rx.pc = "dm_hs"
    /\ handshakeReceived' = TRUE
    /\ main' = [main EXCEPT !.hsNotified = (main.pc = "h_blocked"),
                            !.hsSeen = @ \/ main.pc \in HandshakePcs]
    /\ rx' = [rx EXCEPT !.pc = "rx_loop"]
    /\ UNCHANGED <<connected, chanMap, chanMutex, nextChannelCode, rxThread,
                   pending, transVars, nextObj, chan, waiter,
                   caller, lastDelivery, aborted, stream, codec>>

\* Find the channel; channel->DispatchMessage(message), or the global
\* handler when no channel has the code (dtx_connection.cpp:432-463).
\* gh: m_globalHandler is set (SetGlobalMessageHandler may run at any time).
DM_Route ==
    LET o == Lookup(rx.msg.ch) IN
    /\ ~aborted
    /\ rx.pc = "dm_route"
    /\ chanMutex = NoThread
    /\ IF o # NoObj
         THEN /\ rx' = [rx EXCEPT !.pc = "cd_check", !.ch = o]
              /\ UNCHANGED lastDelivery
         ELSE \E gh \in BOOLEAN :
                Deliver(IF gh THEN "global" ELSE "none", NoObj)
    /\ UNCHANGED <<connVars, transVars, nextObj, chan, waiter, caller, main,
                   aborted, stream, codec>>

ReceiveLoop ==
    \/ RX_Loop
    \/ \E f \in PeerFrames : rx.n < MaxRecv /\ RX_RecvFrame(f)
    \/ RX_RecvError
    \/ RX_RecvClosed

ConnectionDispatch ==
    \/ DM_Sync \/ SI_Store
    \/ \E writeOk \in BOOLEAN : DM_Ack(writeOk)
    \/ DM_Handshake \/ DM_Route


\* =================================================================
\* DTXConnection::Connect and PerformHandshake, run by the main thread
\* =================================================================
\* User code calls Connect(), at most n times.
Main_ConnectUpTo(n) ==
    /\ ~aborted
    /\ main.pc = "ready"
    /\ main.connects < n
    /\ main' = [main EXCEPT !.pc = "c_check", !.connects = @ + 1]
    /\ UNCHANGED <<connVars, transVars, nextObj, chan, waiter, caller, rx,
                   lastDelivery, aborted, stream, codec>>

Main_Connect == Main_ConnectUpTo(MaxConnects)

\* if (m_connected.load()) return Error::Success;
C_Check ==
    /\ ~aborted
    /\ main.pc = "c_check"
    /\ IF connected
         THEN main' = [main EXCEPT !.pc = "ready", !.res = "Success"]
         ELSE main' = [main EXCEPT !.pc = "c_global", !.res = "none"]
    /\ UNCHANGED <<connVars, transVars, nextObj, chan, waiter, caller, rx,
                   lastDelivery, aborted, stream, codec>>

\* { lock(m_channelsMutex); m_channels[0] = make_shared<DTXChannel>(this, "_global_", 0); }
C_Global ==
    /\ ~aborted
    /\ main.pc = "c_global"
    /\ chanMutex = NoThread
    /\ chan' = [chan EXCEPT ![nextObj] = NewChannel(GlobalCode)]
    /\ chanMap' = [chanMap EXCEPT ![GlobalCode] = nextObj]
    /\ nextObj' = nextObj + 1
    /\ main' = [main EXCEPT !.pc = "c_start"]
    /\ UNCHANGED <<connected, chanMutex, nextChannelCode, rxThread,
                   handshakeReceived, pending, transVars,
                   waiter, caller, rx, lastDelivery, aborted, stream, codec>>

\* m_connected.store(true); m_receiveThread = std::thread(ReceiveLoop);
\* move-assigning to a std::thread that is still joinable calls
\* std::terminate.
C_Start ==
    /\ ~aborted
    /\ main.pc = "c_start"
    /\ connected' = TRUE
    /\ IF rxThread = "none"
         THEN /\ rxThread' = "running"
              /\ rx' = [rx EXCEPT !.pc = "rx_loop", !.fatal = FALSE]
              /\ UNCHANGED aborted
         ELSE /\ aborted' = TRUE
              /\ UNCHANGED <<rxThread, rx>>
    /\ main' = [main EXCEPT !.pc = "h_reset", !.hsSeen = FALSE]
    /\ UNCHANGED <<chanMap, chanMutex, nextChannelCode, handshakeReceived,
                   pending, transVars, nextObj, chan, waiter,
                   caller, lastDelivery, stream, codec>>

\* PerformHandshake: auto globalCh = GlobalChannel(); ...
\* { lock(m_handshakeMutex); m_handshakeReceived.store(false); }
H_Reset ==
    /\ ~aborted
    /\ main.pc = "h_reset"
    /\ chanMutex = NoThread
    /\ IF chanMap[GlobalCode] = NoObj
         THEN /\ main' = [main EXCEPT !.pc = "d_xchg", !.after = "c_fail",
                                      !.err = "ConnectionFailed"]
              /\ UNCHANGED handshakeReceived
         ELSE /\ main' = [main EXCEPT !.pc = "h_send",
                                      !.cch = chanMap[GlobalCode]]
              /\ handshakeReceived' = FALSE
    /\ UNCHANGED <<connected, chanMap, chanMutex, nextChannelCode, rxThread,
                   pending, transVars, nextObj, chan, waiter,
                   caller, rx, lastDelivery, aborted, stream, codec>>

\* globalCh->SendMessageAsync(msg): no-op on a cancelled channel; else
\* NextIdentifier(), expects_reply = false, m_connection->SendMessage(msg).
H_Send ==
    LET g == main.cch IN
    /\ ~aborted
    /\ main.pc = "h_send"
    /\ IF chan[g].cancelled
         THEN UNCHANGED <<chan, transVars>>
         ELSE /\ chan' = NextIdentifier(g)
              /\ \E writeOk \in BOOLEAN :
                   TransportSend(Msg(GlobalCode, chan[g].nextId, 0,
                                     MethodInvocation, CapsSel, FALSE,
                                     NoThread), writeOk)
    /\ main' = [main EXCEPT !.pc = "h_wait"]
    /\ UNCHANGED <<connVars, nextObj, waiter, caller, rx, lastDelivery,
                   aborted, stream, codec>>

\* unique_lock lock(m_handshakeMutex); m_handshakeCV.wait_for(lock, 5 s,
\* [this]{ return m_handshakeReceived.load(); }): the predicate first.
H_Wait ==
    /\ ~aborted
    /\ main.pc = "h_wait"
    /\ IF handshakeReceived
         THEN main' = [main EXCEPT !.pc = "ready", !.res = "Success"]
         ELSE main' = [main EXCEPT !.pc = "h_blocked", !.hsNotified = FALSE]
    /\ UNCHANGED <<connVars, transVars, nextObj, chan, waiter, caller, rx,
                   lastDelivery, aborted, stream, codec>>

\* notify_one() reached the waiting Connect.
H_Notified ==
    /\ ~aborted
    /\ main.pc = "h_blocked"
    /\ main.hsNotified
    /\ IF handshakeReceived
         THEN main' = [main EXCEPT !.pc = "ready", !.res = "Success",
                                   !.hsNotified = FALSE]
         ELSE main' = [main EXCEPT !.hsNotified = FALSE]
    /\ UNCHANGED <<connVars, transVars, nextObj, chan, waiter, caller, rx,
                   lastDelivery, aborted, stream, codec>>

\* The 5 s elapsed: wait_for returns the predicate; false is
\* Error::Timeout, and Connect calls Disconnect() before returning it.
H_Timeout ==
    /\ ~aborted
    /\ main.pc = "h_blocked"
    /\ IF handshakeReceived
         THEN main' = [main EXCEPT !.pc = "ready", !.res = "Success",
                                   !.hsNotified = FALSE]
         ELSE main' = [main EXCEPT !.pc = "d_xchg", !.after = "c_fail",
                                   !.err = "Timeout", !.hsNotified = FALSE]
    /\ UNCHANGED <<connVars, transVars, nextObj, chan, waiter, caller, rx,
                   lastDelivery, aborted, stream, codec>>

\* return handshakeErr;
C_Fail ==
    /\ ~aborted
    /\ main.pc = "c_fail"
    /\ main' = [main EXCEPT !.pc = "ready", !.res = main.err]
    /\ UNCHANGED <<connVars, transVars, nextObj, chan, waiter, caller, rx,
                   lastDelivery, aborted, stream, codec>>

Connect ==
    \/ Main_Connect \/ C_Check \/ C_Global \/ C_Start \/ H_Reset \/ H_Send
    \/ H_Wait \/ H_Notified \/ H_Timeout \/ C_Fail

\* =================================================================
\* DTXConnection::Disconnect, run by the main thread
\* =================================================================
Main_Disconnect ==
    /\ ~aborted
    /\ main.pc = "ready"
    /\ main' = [main EXCEPT !.pc = "d_xchg", !.after = "d_done"]
    /\ UNCHANGED <<connVars, transVars, nextObj, chan, waiter, caller, rx,
                   lastDelivery, aborted, stream, codec>>

\* bool wasConnected = m_connected.exchange(false);
D_Exchange ==
    /\ ~aborted
    /\ main.pc = "d_xchg"
    /\ connected' = FALSE
    /\ main' = [main EXCEPT !.was = connected,
                            !.pc = IF connected THEN "d_lock" ELSE "d_join"]
    /\ UNCHANGED <<chanMap, chanMutex, nextChannelCode, rxThread,
                   handshakeReceived, pending, transVars,
                   nextObj, chan, waiter, caller, rx, lastDelivery, aborted, stream, codec>>

\* { lock_guard lock(m_channelsMutex); for (auto& [code, channel] : m_channels)
D_Lock ==
    /\ ~aborted
    /\ main.pc = "d_lock"
    /\ chanMutex = NoThread
    /\ chanMutex' = "main"
    /\ main' = [main EXCEPT !.pc = "d_cancel",
                            !.todo = {c \in Codes : chanMap[c] # NoObj}]
    /\ UNCHANGED <<connected, chanMap, nextChannelCode, rxThread,
                   handshakeReceived, pending, transVars,
                   nextObj, chan, waiter, caller, rx, lastDelivery, aborted, stream, codec>>

\* channel->Cancel() for the next channel in code order; past the last one
\* m_channelsMutex is released.
D_Cancel ==
    /\ ~aborted
    /\ main.pc = "d_cancel"
    /\ IF main.todo = {}
         THEN /\ chanMutex' = NoThread
              /\ main' = [main EXCEPT !.pc = "d_close"]
         ELSE /\ main' = [main EXCEPT !.pc = "cn_xchg", !.ret = "d_cancel",
                                      !.cch = chanMap[Min(main.todo)],
                                      !.todo = @ \ {Min(main.todo)}]
              /\ UNCHANGED chanMutex
    /\ UNCHANGED <<connected, chanMap, nextChannelCode, rxThread,
                   handshakeReceived, pending, transVars,
                   nextObj, chan, waiter, caller, rx, lastDelivery, aborted, stream, codec>>

\* m_transport->Close();
D_Close ==
    /\ ~aborted
    /\ main.pc = "d_close"
    /\ tOpen' = FALSE
    /\ main' = [main EXCEPT !.pc = "d_join"]
    /\ UNCHANGED <<connVars, lastReadFatal, wire, nextObj, chan, waiter,
                   caller, rx, lastDelivery, aborted, stream, codec>>

\* if (m_receiveThread.joinable()) m_receiveThread.join();  -- join blocks
\* until the worker has returned.
D_Join ==
    /\ ~aborted
    /\ main.pc = "d_join"
    /\ IF main.on = "rx"
         THEN \* The call runs on m_receiveThread itself: joinable() holds
              \* and join() throws std::system_error
              \* (resource_deadlock_would_occur); nothing between the
              \* handler and the thread function catches it.
              /\ aborted' = TRUE
              /\ UNCHANGED <<rxThread, main>>
         ELSE /\ rxThread # "running"
              /\ rxThread' = "none"
              /\ main' = [main EXCEPT !.pc = IF main.was THEN "d_clear"
                                             ELSE main.after]
              /\ UNCHANGED aborted
    /\ UNCHANGED <<connected, chanMap, chanMutex, nextChannelCode,
                   handshakeReceived, pending, transVars,
                   nextObj, chan, waiter, caller, rx, lastDelivery, stream, codec>>

\* if (wasConnected) { { lock(m_channelsMutex); m_channels.clear(); }
\*                     m_fragmentDecoder->Clear(); }
D_Clear ==
    /\ ~aborted
    /\ main.pc = "d_clear"
    /\ chanMutex = NoThread
    /\ chanMap' = [c \in Codes |-> NoObj]
    /\ pending' = {}
    /\ main' = [main EXCEPT !.pc = main.after]
    /\ UNCHANGED <<connected, chanMutex, nextChannelCode, rxThread,
                   handshakeReceived, transVars, nextObj,
                   chan, waiter, caller, rx, lastDelivery, aborted, stream, codec>>

\* Disconnect() has returned to user code.
D_Done ==
    /\ ~aborted
    /\ main.pc = "d_done"
    /\ main' = [main EXCEPT !.pc = "ready"]
    /\ UNCHANGED <<connVars, transVars, nextObj, chan, waiter, caller, rx,
                   lastDelivery, aborted, stream, codec>>

Disconnect ==
    \/ Main_Disconnect \/ D_Exchange \/ D_Lock \/ D_Cancel \/ D_Close
    \/ D_Join \/ D_Clear \/ D_Done

\* User code cancels a channel it holds: the global channel, or one
\* MakeChannelWithIdentifier returned.
Main_Cancel(o) ==
    /\ ~aborted
    /\ main.pc = "ready"
    /\ o < nextObj
    /\ \/ chan[o].code = GlobalCode
       \/ \E t \in Callers : caller[t].pc = "done" /\ caller[t].op = "make"
                             /\ caller[t].newCh = o
    /\ main' = [main EXCEPT !.pc = "cn_xchg", !.ret = "ready", !.cch = o]
    /\ UNCHANGED <<connVars, transVars, nextObj, chan, waiter, caller, rx,
                   lastDelivery, aborted, stream, codec>>


\* =================================================================
\* User threads: one operation each
\* =================================================================
\* auto ch = connection->GlobalChannel(); ch->SendMessageSync(msg);
Start_Sync(t) ==
    /\ ~aborted
    /\ caller[t].pc = "idle"
    /\ chanMutex = NoThread
    /\ chanMap[GlobalCode] # NoObj
    /\ caller' = [caller EXCEPT ![t].pc = "ss_check", ![t].op = "sync",
                                ![t].ch = chanMap[GlobalCode]]
    /\ UNCHANGED <<connVars, transVars, nextObj, chan, waiter, rx, main,
                   lastDelivery, aborted, stream, codec>>

\* auto ch = connection->GlobalChannel(); ch->SendMessageAsync(msg);
Start_Async(t) ==
    /\ ~aborted
    /\ caller[t].pc = "idle"
    /\ chanMutex = NoThread
    /\ chanMap[GlobalCode] # NoObj
    /\ caller' = [caller EXCEPT ![t].pc = "sa_check", ![t].op = "async",
                                ![t].ch = chanMap[GlobalCode]]
    /\ UNCHANGED <<connVars, transVars, nextObj, chan, waiter, rx, main,
                   lastDelivery, aborted, stream, codec>>

\* connection->MakeChannelWithIdentifier(identifier)
Start_Make(t) ==
    /\ ~aborted
    /\ caller[t].pc = "idle"
    /\ caller' = [caller EXCEPT ![t].pc = "mk_check", ![t].op = "make"]
    /\ UNCHANGED <<connVars, transVars, nextObj, chan, waiter, rx, main,
                   lastDelivery, aborted, stream, codec>>

\* if (!m_connected.load()) return nullptr;
MK_Check(t) ==
    /\ ~aborted
    /\ caller[t].pc = "mk_check"
    /\ caller' = SetPc(t, IF connected THEN "mk_alloc" ELSE "done")
    /\ UNCHANGED <<connVars, transVars, nextObj, chan, waiter, rx, main,
                   lastDelivery, aborted, stream, codec>>

\* A counter that hands out its value without advancing.
SameChannelCode(c) == c
\* std::atomic<int32_t>::fetch_add(1): the stored value after the call.
FetchAddChannelCode(c) == IF c = Int32Max THEN 0 - Int32Max - 1 ELSE c + 1

\* int32_t code = m_nextChannelCode.fetch_add(1);
\* auto channel = make_shared<DTXChannel>(this, identifier, code);
MK_Alloc(t) ==
    /\ ~aborted
    /\ caller[t].pc = "mk_alloc"
    /\ nextChannelCode' = FetchAddChannelCode(nextChannelCode)
    /\ chan' = [chan EXCEPT ![nextObj] = NewChannel(nextChannelCode)]
    /\ nextObj' = nextObj + 1
    /\ caller' = [caller EXCEPT ![t].pc = "mk_insert",
                                ![t].code = nextChannelCode,
                                ![t].newCh = nextObj]
    /\ UNCHANGED <<connected, chanMap, chanMutex, rxThread,
                   handshakeReceived, pending, transVars,
                   waiter, rx, main, lastDelivery, aborted, stream, codec>>

\* A MakeChannelWithIdentifier that goes on without registering the channel.
MK_InsertNothing(t) ==
    /\ ~aborted
    /\ caller[t].pc = "mk_insert"
    /\ chanMutex = NoThread
    /\ caller' = SetPc(t, "mk_global")
    /\ UNCHANGED <<connVars, transVars, nextObj, chan, waiter, rx, main,
                   lastDelivery, aborted, stream, codec>>
\* { lock(m_channelsMutex); m_channels[code] = channel; }
MK_Insert(t) ==
    /\ ~aborted
    /\ caller[t].pc = "mk_insert"
    /\ chanMutex = NoThread
    /\ chanMap' = [chanMap EXCEPT ![caller[t].code] = caller[t].newCh]
    /\ caller' = SetPc(t, "mk_global")
    /\ UNCHANGED <<connected, chanMutex, nextChannelCode, rxThread,
                   handshakeReceived, pending, transVars,
                   nextObj, chan, waiter, rx, main, lastDelivery, aborted, stream, codec>>

\* auto globalCh = GlobalChannel(); if (!globalCh) return nullptr;
\* auto response = globalCh->SendMessageSync(requestMsg);
MK_Global(t) ==
    /\ ~aborted
    /\ caller[t].pc = "mk_global"
    /\ chanMutex = NoThread
    /\ IF chanMap[GlobalCode] = NoObj
         THEN caller' = [caller EXCEPT ![t].pc = "done", ![t].newCh = NoObj]
         ELSE caller' = [caller EXCEPT ![t].pc = "ss_check",
                                       ![t].ch = chanMap[GlobalCode]]
    /\ UNCHANGED <<connVars, transVars, nextObj, chan, waiter, rx, main,
                   lastDelivery, aborted, stream, codec>>

\* SendMessageSync has returned caller[t].res to its caller; its locals,
\* the ResponseWaiter among them, are gone.  ok: the call gave a response;
\* sent: its request went out on the stream.
SS_Return(t) ==
    /\ ~aborted
    /\ caller[t].pc = "ss_ret"
    /\ caller' = [caller EXCEPT ![t] =
         [CallerIdle EXCEPT !.op = caller[t].op, !.code = caller[t].code,
                            !.newCh = caller[t].newCh,
                            !.sent = caller[t].sent,
                            !.ok = caller[t].res # Null,
                            !.pc = IF caller[t].op = "make"
                                      /\ caller[t].res = Null
                                     THEN "mk_erase" ELSE "done"]]
    /\ waiter' = [waiter EXCEPT ![t] = NewWaiter]
    /\ UNCHANGED <<connVars, transVars, nextObj, chan, rx, main,
                   lastDelivery, aborted, stream, codec>>

\* A failure path that erases the global channel's entry instead of the
\* new channel's.
MK_EraseGlobal(t) ==
    /\ ~aborted
    /\ caller[t].pc = "mk_erase"
    /\ chanMutex = NoThread
    /\ chanMap' = [chanMap EXCEPT ![GlobalCode] = NoObj]
    /\ caller' = [caller EXCEPT ![t].pc = "done", ![t].newCh = NoObj]
    /\ UNCHANGED <<connected, chanMutex, nextChannelCode, rxThread,
                   handshakeReceived, pending, transVars,
                   nextObj, chan, waiter, rx, main, lastDelivery, aborted, stream, codec>>
\* if (!response) { lock(m_channelsMutex); m_channels.erase(code); return nullptr; }
MK_Erase(t) ==
    /\ ~aborted
    /\ caller[t].pc = "mk_erase"
    /\ chanMutex = NoThread
    /\ chanMap' = [chanMap EXCEPT ![caller[t].code] = NoObj]
    /\ caller' = [caller EXCEPT ![t].pc = "done", ![t].newCh = NoObj]
    /\ UNCHANGED <<connected, chanMutex, nextChannelCode, rxThread,
                   handshakeReceived, pending, transVars,
                   nextObj, chan, waiter, rx, main, lastDelivery, aborted, stream, codec>>

MakeChannelWithIdentifier(t) ==
    \/ Start_Make(t) \/ MK_Check(t) \/ MK_Alloc(t) \/ MK_Insert(t)
    \/ MK_Global(t) \/ MK_Erase(t)

\* =================================================================
\* Specifications
\* =================================================================
\* The connection's life: Connect with its handshake, the receive worker,
\* Disconnect and Cancel on the main thread, and one user thread that calls
\* SendMessageSync on the global channel or MakeChannelWithIdentifier.
ConnCallers == {"u1"}

Next ==
    \/ Connect
    \/ Disconnect
    \/ \E o \in Objs : Main_Cancel(o)
    \/ Cancel
    \/ ReceiveLoop
    \/ ConnectionDispatch
    \/ ChannelDispatch
    \/ \E t \in ConnCallers : Start_Sync(t)
    \/ \E t \in ConnCallers : SendMessageSync(t, BOOLEAN)
    \/ \E t \in ConnCallers : SS_Return(t)
    \/ \E t \in ConnCallers : MakeChannelWithIdentifier(t)

Spec == Init /\ [][Next]_vars

\* One channel under load.  InitChan is the state Spec reaches when Connect
\* has returned Success (the handshake request took identifier 1): every
\* user thread then calls SendMessageSync on the global channel while the
\* receive worker dispatches and the main thread cancels.
ConnectedState ==
    /\ connected = TRUE
    /\ chanMap = [c \in Codes |-> IF c = GlobalCode THEN 0 ELSE NoObj]
    /\ chanMutex = NoThread
    /\ nextChannelCode = FirstChannelCode
    /\ rxThread = "running"
    /\ handshakeReceived = TRUE
    /\ pending = {}
    /\ tOpen = TRUE
    /\ lastReadFatal = FALSE
    /\ wire = {}
    /\ nextObj = 1
    /\ chan = [o \in Objs |->
                 IF o = 0 THEN [NewChannel(GlobalCode) EXCEPT !.nextId = 2]
                 ELSE NewChannel(NoObj)]
    /\ waiter = [t \in Callers |-> NewWaiter]
    /\ caller = [t \in Callers |-> CallerIdle]
    /\ rx = [RxIdle EXCEPT !.pc = "rx_loop"]
    /\ main = [MainIdle EXCEPT !.res = "Success", !.connects = 1,
                               !.hsSeen = TRUE, !.cch = 0]
    /\ lastDelivery = NoDelivery
    /\ aborted = FALSE

InitChan == ConnectedState /\ stream = StreamIdle /\ codec = CodecIdle

\* What the peer sends on an established connection's global channel.
ChanFrames ==
    {f \in PeerFrames : f.m.ch = GlobalCode /\ f.m.sel # CapsSel
                        /\ f.m.type # Ack /\ ~f.m.er}

NextChan ==
    \/ \E o \in Objs : Main_Cancel(o)
    \/ Cancel
    \/ RX_Loop
    \/ \E f \in ChanFrames : rx.n < MaxChanRecv /\ RX_RecvFrame(f)
    \/ DM_Sync
    \/ SI_Store
    \/ DM_Route
    \/ ChannelDispatch
    \/ \E t \in Callers : Start_Sync(t)
    \/ \E t \in Callers : SendMessageSync(t, BOOLEAN)
    \/ \E t \in Callers : SS_Return(t)

SpecChan == InitChan /\ [][NextChan]_vars

\* =================================================================
\* Properties
\* =================================================================
\* C1: a SendMessageSync call that returns a message returns the reply to
\* its own request: the reply carries the identifier allocated to the
\* caller and answers the request this caller wrote, never another
\* caller's.
C1_OwnReply ==
    \A t \in Callers :
        (caller[t].pc = "ss_ret" /\ caller[t].res # Null)
            => (caller[t].res.id = caller[t].id /\ caller[t].res.req = t)

\* C2: no two threads wait for each other's lock: a caller never holds its
\* waiter's mutex while it needs m_waitersMutex from a thread (Cancel on the
\* main thread, DispatchMessage on the receive worker) that holds
\* m_waitersMutex and needs that waiter's mutex.
C2_NoDeadlock ==
    \A t \in Callers :
        LET o == caller[t].ch IN
        ~ /\ caller[t].pc = "ss_erase"
          /\ waiter[t].holder = t
          /\ \/ /\ chan[o].wmx = "main"
                /\ main.pc = "cn_iter"
                /\ main.rem # {}
                /\ FindWaiter(chan[o].waiters, Min(main.rem)) = t
             \/ /\ chan[o].wmx = "rx"
                /\ rx.pc = "cd_fulfil"
                /\ rx.tgt = t

\* C3: the store of SyncIdentifier never lowers a channel's
\* m_nextIdentifier (for a received identifier below the top of the word,
\* so that receivedId + 1 does not wrap).
C3_NeverDecreases ==
    [][(rx.pc = "si_store" /\ rx'.pc # "si_store" /\ rx.msg.id + 1 < IdMod)
          => chan'[rx.ch].nextId >= chan[rx.ch].nextId]_vars

\* The user-visible handlers, and the states in which the receive worker
\* has handed its message to the channel or has just invoked a handler.
HandlerKinds == {"method", "default", "global"}
Dispatching ==
    \/ rx.pc \in {"dm_route", "cd_check", "cd_find", "cd_fulfil", "cd_handlers"}
    \/ rx.pc = "rx_loop" /\ lastDelivery.kind # "none"
ExpectsAck(m) == m # Null /\ m.conv = 0 /\ m.type # Ack /\ m.er

\* C4 (as the code has it): for a received message with conversation_index
\* 0, type other than Ack and expects_reply set, SendAck has been called
\* before the message is passed on to a channel or a handler; it writes at
\* most one Ack, and a written Ack carries the received identifier and
\* channel code, conversation_index + 1 and expects_reply = false.
C4_AckBeforeDispatch ==
    ExpectsAck(rx.msg) =>
        /\ Dispatching => rx.ackTried
        /\ rx.acks <= 1
        /\ rx.acks = 1 =>
              /\ rx.ack.id = rx.msg.id
              /\ rx.ack.ch = rx.msg.ch
              /\ rx.ack.conv = rx.msg.conv + 1
              /\ rx.ack.type = Ack
              /\ ~rx.ack.er
\* A handler runs on such a message after its Ack went out.
C4_Witness ==
    /\ lastDelivery.kind \in HandlerKinds
    /\ ExpectsAck(lastDelivery.msg)
    /\ rx.acks = 1
    /\ rx.ack.conv = 1
\* C4 as stated: when such a message reaches a handler exactly one Ack has
\* been written for it.
C4_ExactlyOneAck ==
    (lastDelivery.kind \in HandlerKinds /\ ExpectsAck(lastDelivery.msg))
        => rx.acks = 1

\* C5: Connect returns Timeout only if the receive worker dispatched no
\* capabilities message between its start and the end of the handshake wait.
C5_HandshakeSuccess == main.res = "Timeout" => ~main.hsSeen

\* C6: when Disconnect() has returned the worker is joined, the channel map
\* and the fragment state are empty, the global channel is cancelled and no
\* SendMessageSync caller is still waiting.
C6_AfterDisconnect ==
    main.pc = "d_done" =>
        /\ rxThread = "none"
        /\ \A c \in Codes : chanMap[c] = NoObj
        /\ pending = {}
        /\ \A o \in Objs :
              (o < nextObj /\ chan[o].code = GlobalCode) => chan[o].cancelled
        /\ \A t \in Callers : caller[t].pc # "ss_blocked"

\* C7: once the receive loop has ended on a non-transient read error, every
\* caller blocked in SendMessageSync has been notified or its channel has
\* been cancelled.
C7_ErrorWakesWaiters ==
    (rx.pc = "exited" /\ rx.fatal) =>
        \A t \in Callers :
            caller[t].pc = "ss_blocked" =>
                (waiter[t].notified \/ chan[caller[t].ch].cancelled)

\* C8: once Cancel has run on a channel, no SendMessageSync caller on it is
\* left blocked without a notification (no lost wake-up).
C8_NoLostWakeup ==
    \A t \in Callers :
        (caller[t].pc = "ss_blocked" /\ chan[caller[t].ch].cancelled
            /\ main.pc = "ready")
        => waiter[t].notified

\* C9: a channel's selector handler or default handler is never invoked
\* with a reply (conversation_index > 0).
C9_LateReplyDiscarded ==
    lastDelivery.kind \in {"method", "default"} => lastDelivery.msg.conv = 0

\* C10: no handler is invoked with a message of type Ack.
C10_AckNotDispatched ==
    lastDelivery.kind \in HandlerKinds => lastDelivery.msg.type # Ack


\* The peer's capabilities message.
Capabilities(m) == m.sel = CapsSel /\ m.ch = GlobalCode /\ m.conv = 0
ChannelPcs == {"dm_route", "cd_check", "cd_find", "cd_fulfil", "cd_handlers"}

\* C11: the capabilities message (selector _notifyOfPublishedCapabilities:,
\* channel 0, conversation_index 0) is never routed to a channel and never
\* passed to a selector handler, a default handler or the global handler.
C11_HandshakeConsumed ==
    /\ rx.pc \in ChannelPcs => ~Capabilities(rx.msg)
    /\ lastDelivery.kind \in HandlerKinds => ~Capabilities(lastDelivery.msg)
\* The worker has just consumed a capabilities message.
C11_Witness ==
    /\ rx.pc = "rx_loop"
    /\ Capabilities(rx.msg)
    /\ handshakeReceived
    /\ lastDelivery.kind = "none"


\* -----------------------------------------------------------------
\* The whole life of a connection object: user code calls Connect and
\* Disconnect again and again while the peer answers the handshake, closes
\* the stream or lets reads fail.  No user thread sends.
\* -----------------------------------------------------------------
LifeFrames == {f \in PeerFrames : f.m.sel = CapsSel}

NextLife ==
    \/ Main_ConnectUpTo(MaxLifeConnects)
    \/ C_Check \/ C_Global \/ C_Start \/ H_Reset \/ H_Send
    \/ H_Wait \/ H_Notified \/ H_Timeout \/ C_Fail
    \/ Disconnect
    \/ Cancel
    \/ RX_Loop
    \/ \E f \in LifeFrames : rx.n < MaxRecv /\ RX_RecvFrame(f)
    \/ RX_RecvError
    \/ RX_RecvClosed
    \/ DM_Sync \/ SI_Store
    \/ \E writeOk \in BOOLEAN : DM_Ack(writeOk)
    \/ DM_Handshake

SpecLife == Init /\ [][NextLife]_vars

\* C12: once the connection has left the connected state, a later call of
\* Connect neither makes IsConnected() true again nor starts a new receive
\* worker.  (The first call of Connect always connects; a later call finds
\* the connection either still connected, and changes nothing, or closed.)
C12_ClosedIsTerminal ==
    [][main.connects > 1 =>
         /\ (connected' => connected)
         /\ (rxThread' = "running" => rxThread = "running")
         /\ (aborted' => aborted)]_vars


\* C13: MakeChannelWithIdentifier is accepted only once the capability
\* handshake has completed: while the peer's capabilities have not been
\* received it allocates no channel code.
C13_MakeOnlyWhenOpen ==
    [][nextChannelCode' # nextChannelCode => handshakeReceived]_vars


\* -----------------------------------------------------------------
\* Opening channels: on the established connection of InitChan every user
\* thread calls MakeChannelWithIdentifier, while the peer answers the
\* requests or invokes a method on one of the new channel codes.
\* -----------------------------------------------------------------
MakeCodes == FirstChannelCode .. (FirstChannelCode + Cardinality(Callers) - 1)
MakeFrames ==
    {Frame(Msg(r.ch, r.id, 1, ResponseWithPayload, NoSel, FALSE, r.req), 0, 1) :
        r \in wire}
    \cup {Frame(Msg(c, IdMod - 1, 0, MethodInvocation, UserSel, FALSE,
                    NoThread), 0, 1) : c \in MakeCodes}

NextMake ==
    \/ RX_Loop
    \/ \E f \in MakeFrames : rx.n < MaxMakeRecv /\ RX_RecvFrame(f)
    \/ DM_Sync \/ SI_Store \/ DM_Route
    \/ ChannelDispatch
    \/ \E t \in Callers : MakeChannelWithIdentifier(t)
    \/ \E t \in Callers : SendMessageSync(t, BOOLEAN)
    \/ \E t \in Callers : SS_Return(t)

SpecMake == InitChan /\ [][NextMake]_vars


\* C14: MakeChannelWithIdentifier writes its request only when the new
\* channel is in the channel map under its allocated code, and a message
\* for a code that is in the map is routed to that code's channel, not to
\* the global handler.
C14_InMapBeforeWrite ==
    [][/\ \A t \in Callers :
            (caller[t].op = "make" /\ caller[t].pc = "ss_send"
             /\ caller'[t].pc # "ss_send")
            => chanMap[caller[t].code] = caller[t].newCh
       /\ (rx.pc = "dm_route" /\ rx'.pc # "dm_route"
           /\ Lookup(rx.msg.ch) # NoObj)
            => /\ rx'.pc = "cd_check"
               /\ rx'.ch = chanMap[rx.msg.ch]
               /\ lastDelivery' = lastDelivery]_vars
\* MakeChannelWithIdentifier has returned the channel (the reply to its
\* request was dispatched), and a peer message for the new code has since
\* reached a handler of the new channel.
C14_Witness ==
    \E t \in Callers :
        /\ caller[t].op = "make"
        /\ caller[t].pc = "done"
        /\ caller[t].ok
        /\ lastDelivery.kind \in {"method", "default"}
        /\ lastDelivery.msg.ch = caller[t].code
        /\ lastDelivery.obj = caller[t].newCh
\* C14 as stated: a message for the allocated code that arrives at any
\* point after the request was written is routed to the new channel.  A
\* code that is erased is never registered again, so the message can be
\* routed to the channel only if the channel is in the map when it arrives.
C14_RoutedEverAfter ==
    [][\A t \in Callers :
         (caller[t].op = "make" /\ caller[t].sent
          /\ rx.pc = "rx_recv" /\ rx'.pc = "dm_sync"
          /\ rx'.msg.ch = caller[t].code)
         => chanMap[caller[t].code] # NoObj]_vars


\* C15: after MakeChannelWithIdentifier has allocated a code and returned
\* null, the channel map has no entry for that code.
C15_FailureRemovesChannel ==
    \A t \in Callers :
        (caller[t].op = "make" /\ caller[t].pc = "done" /\ ~caller[t].ok
         /\ caller[t].code >= FirstChannelCode)
        => chanMap[caller[t].code] = NoObj


\* -----------------------------------------------------------------
\* Channel codes: every user thread calls MakeChannelWithIdentifier on the
\* established connection of InitChan while the main thread cancels the
\* global channel or a returned channel; the peer answers a request or
\* stays silent, and writes may fail.
\* -----------------------------------------------------------------
\* The peer's answers to the requests written so far.
CodeFrames == {f \in MakeFrames : f.m.conv = 1}

NextCodes ==
    \/ \E o \in Objs : Main_Cancel(o)
    \/ Cancel
    \/ RX_Loop
    \/ \E f \in CodeFrames : rx.n < MaxCodeRecv /\ RX_RecvFrame(f)
    \/ DM_Route
    \/ ChannelDispatch
    \/ \E t \in Callers : MakeChannelWithIdentifier(t)
    \/ \E t \in Callers : SendMessageSync(t, BOOLEAN)
    \/ \E t \in Callers : SS_Return(t)

SpecCodes == InitChan /\ [][NextCodes]_vars


\* A MakeChannelWithIdentifier call that has taken its code.
HasCode(t) == caller[t].op = "make" /\ caller[t].code # NoCode

\* C16: concurrent MakeChannelWithIdentifier calls never get the same
\* channel code, whether they fail or their channel is cancelled later;
\* the first code is 1, every code is larger than all codes handed out
\* before it, and code 0 is never handed out.
C16_CodesUnique ==
    [][/\ \A t \in Callers : HasCode(t) =>
            /\ caller[t].code >= FirstChannelCode
            /\ caller[t].code < nextChannelCode
            /\ caller'[t].code = caller[t].code
            /\ \A u \in Callers \ {t} :
                  HasCode(u) => caller[u].code # caller[t].code
       /\ \A t \in Callers : (~HasCode(t) /\ HasCode(t)') =>
            /\ caller'[t].code = nextChannelCode
            /\ nextChannelCode' > nextChannelCode
            /\ caller'[t].code = FirstChannelCode
                  <=> \A u \in Callers : ~HasCode(u)]_vars
\* Both calls have returned with different codes: one failed and its
\* channel was erased, the other's channel was returned and then cancelled.
C16_Witness ==
    \E t, u \in Callers :
        /\ HasCode(t) /\ HasCode(u)
        /\ caller[t].code < caller[u].code
        /\ \E f, g \in {t, u} :
              /\ caller[f].pc = "done" /\ ~caller[f].ok
              /\ caller[g].pc = "done" /\ caller[g].ok
              /\ chan[caller[g].newCh].cancelled


\* C17: whenever the connection is connected after Connect has returned
\* Success, the channel map holds the global channel under code 0, whatever
\* MakeChannelWithIdentifier calls have failed and whatever channels have
\* been cancelled.
C17_GlobalChannelPresent ==
    (connected /\ main.res = "Success") =>
        /\ chanMap[GlobalCode] # NoObj
        /\ chan[chanMap[GlobalCode]].code = GlobalCode
\* Connected after a successful Connect, the global channel cancelled and a
\* MakeChannelWithIdentifier call failed after taking its code.
C17_Witness ==
    /\ connected
    /\ main.res = "Success"
    /\ chanMap[GlobalCode] # NoObj
    /\ chan[chanMap[GlobalCode]].cancelled
    /\ \E t \in Callers :
          HasCode(t) /\ caller[t].pc = "done" /\ ~caller[t].ok


\* C18: when Connect is about to return Timeout and the peer has sent
\* nothing at all, the connection is not connected, the receive worker has
\* been joined and the channel map is empty.
C18_TimeoutLeavesNothing ==
    (main.pc = "c_fail" /\ main.err = "Timeout" /\ rx.n = 0) =>
        /\ ~connected
        /\ rxThread = "none"
        /\ \A c \in Codes : chanMap[c] = NoObj


\* -----------------------------------------------------------------
\* Sending on a channel that is cancelled or whose connection goes down:
\* on the established connection of InitChan every user thread calls
\* SendMessageSync or SendMessageAsync on the global channel, while the
\* main thread cancels the channel or disconnects, reads fail and the peer
\* answers at most one request.
\* -----------------------------------------------------------------
NextSend ==
    \/ \E o \in Objs : Main_Cancel(o)
    \/ Cancel
    \/ Disconnect
    \/ RX_Loop \/ RX_RecvError \/ RX_RecvClosed
    \/ \E f \in CodeFrames : rx.n < MaxCodeRecv /\ RX_RecvFrame(f)
    \/ DM_Route
    \/ ChannelDispatch
    \/ \E t \in Callers : Start_Sync(t)
    \/ \E t \in Callers : Start_Async(t)
    \/ \E t \in Callers : SendMessageSync(t, BOOLEAN)
    \/ \E t \in Callers : SendMessageAsync(t, BOOLEAN)
    \/ \E t \in Callers : SS_Return(t)

SpecSend == InitChan /\ [][NextSend]_vars


\* The step in which caller t's send finds its channel cancelled.
RefusedStep(t) ==
    /\ caller[t].pc \in {"ss_check", "sa_check"}
    /\ caller'[t].pc # caller[t].pc
    /\ chan[caller[t].ch].cancelled

\* C19: a send that finds its channel cancelled returns at once, null from
\* SendMessageSync and nothing from SendMessageAsync: no identifier is
\* taken, no waiter is registered and nothing is written to the transport,
\* neither in that step nor in the return to the caller.
C19_CancelledSendIsNoOp ==
    [][\A t \in Callers :
         /\ RefusedStep(t) =>
               /\ chan' = chan /\ wire' = wire /\ tOpen' = tOpen
               /\ ~caller'[t].sent
               /\ IF caller[t].pc = "ss_check"
                    THEN caller'[t].pc = "ss_ret" /\ caller'[t].res = Null
                    ELSE caller'[t].pc = "done"
         /\ (caller[t].pc = "ss_ret" /\ caller'[t].pc # "ss_ret"
             /\ caller[t].op = "sync") =>
               /\ chan' = chan /\ wire' = wire /\ tOpen' = tOpen
               /\ caller'[t].pc = "done"
               /\ caller'[t].ok = (caller[t].res # Null)]_vars
\* One caller's SendMessageSync and the other's SendMessageAsync have both
\* returned from the cancelled global channel, whose identifier counter
\* still has the value it had before either call.
C19_Witness ==
    /\ chan[0].cancelled
    /\ chan[0].nextId = 2
    /\ chan[0].waiters = NewChannel(GlobalCode).waiters
    /\ wire = {}
    /\ \E t, u \in Callers :
          /\ caller[t].op = "sync" /\ caller[t].pc = "done"
          /\ ~caller[t].ok /\ ~caller[t].sent
          /\ caller[u].op = "async" /\ caller[u].pc = "done"
          /\ ~caller[u].sent


\* C20: a send on a channel that is not cancelled, issued while the
\* connection is closed, hands ConnectionFailed to its caller, from
\* SendMessageSync and from SendMessageAsync alike; SendMessageSync does
\* not wait, and when it returns no waiter is registered under the
\* identifier it took.
C20_ClosedSendSurfacesError ==
    [][\A t \in Callers :
         /\ (caller[t].pc = "sa_send" /\ caller'[t].pc = "done" /\ ~CanWrite)
               => caller'[t].err = "ConnectionFailed"
         /\ (caller[t].pc = "ss_send" /\ caller'[t].pc # "ss_send"
             /\ ~CanWrite)
               => caller'[t].pc = "ss_senderr"
         /\ (caller[t].pc = "ss_senderr" /\ caller'[t].pc # "ss_senderr")
               => /\ caller'[t].pc = "ss_ret"
                  /\ caller'[t].err = "ConnectionFailed"
                  /\ ~HasWaiter(chan'[caller[t].ch].waiters, caller[t].id)]_vars


\* -----------------------------------------------------------------
\* Reassembly: on the established connection of InitChan the peer sends
\* fragmented messages, fragment 0 of a message first and then every other
\* fragment once, in any order; fragments of two messages may interleave.
\* The decoder's entry tells which fragments of a message have arrived.
\* -----------------------------------------------------------------
FragDue(f) ==
    IF f.fidx = 0
      THEN \A e \in pending : e.id # f.m.id
      ELSE \E e \in pending :
             /\ e.id = f.m.id
             /\ e.expectedCount = f.fcnt
             /\ f.fidx < f.fcnt
             /\ f.fidx \notin e.idxs

NextFrag ==
    \/ RX_Loop
    \/ \E f \in FragFrames :
          rx.n < MaxFragRecv /\ FragDue(f) /\ RX_RecvFrame(f)
    \/ DM_Sync \/ SI_Store \/ DM_Route
    \/ CD_Check \/ CD_Handlers

SpecFrag == InitChan /\ [][NextFrag]_vars

\* Fragments 1 .. k of the message with the given identifier, joined in
\* ascending index order.
RECURSIVE JoinedFragments(_, _)
JoinedFragments(id, k) ==
    IF k = 0 THEN <<>> ELSE JoinedFragments(id, k - 1) \o FragData(id, k)

\* C21: with fragment 0 first and every other fragment delivered once, in
\* any order, a message is dispatched exactly when its last fragment
\* arrives; the bytes decoded are fragments 1..n-1 joined in ascending
\* index order, they stay the same until the message reaches its handler,
\* and the decoder keeps no entry for the identifier.
C21_Reassembly ==
    [][/\ (rx.pc = "rx_recv" /\ rx'.pc = "dm_sync") =>
            \E e \in pending :
                /\ e.id = rx'.msg.id
                /\ Cardinality(e.idxs) = e.expectedCount - 2
                /\ rx'.body = JoinedFragments(e.id, e.expectedCount - 1)
                /\ \A p \in pending' : p.id # e.id
       /\ (rx.pc = "rx_recv" /\ rx'.pc = "rx_loop") =>
            \E e \in pending' :
                /\ e \notin pending
                /\ Cardinality(e.idxs) < e.expectedCount - 1
       /\ rx.pc \notin {"rx_loop", "rx_recv"} => rx'.body = rx.body]_vars
\* A three-fragment message has reached a handler with both data fragments
\* in index order, and the decoder is empty again.
C21_Witness ==
    /\ lastDelivery.kind \in HandlerKinds
    /\ \E id \in PeerIds :
          /\ lastDelivery.msg = FragMsg(id)
          /\ rx.body = FragData(id, 1) \o FragData(id, 2)
    /\ pending = {}


\* C24: concurrent senders on one channel put their frames on the
\* transport in identifier order: when a caller's request goes out, no
\* other caller's request with a larger identifier on the same channel has
\* gone out before it.
C24_WireOrder ==
    [][\A t \in Callers :
         (caller[t].pc = "ss_send" /\ caller'[t].pc = "ss_wait") =>
            \A u \in Callers \ {t} :
                (caller[u].sent /\ caller[u].ch = caller[t].ch
                 /\ caller[u].pc \in {"ss_wait", "ss_blocked"})
                => caller[u].id < caller[t].id]_vars


\* C25: when SyncIdentifier(r) runs on a channel whose counter is c while
\* no thread sends, the counter becomes max(c, r + 1): a call that stores
\* leaves r + 1, which is not below c, and a call that does not store had
\* r + 1 <= c.
C25_SyncIsMax ==
    [][/\ rx.pc = "si_store" =>
            /\ chan'[rx.ch].nextId = rx.msg.id + 1
            /\ chan'[rx.ch].nextId >= chan[rx.ch].nextId
       /\ (rx.pc = "dm_sync" /\ rx'.pc \notin {"dm_sync", "si_store"}
           /\ Lookup(rx.msg.ch) # NoObj) =>
            /\ chan' = chan
            /\ rx.msg.id + 1 <= chan[Lookup(rx.msg.ch)].nextId]_vars


\* C30: no sequence of Connect, Disconnect and remote closure aborts the
\* process: std::terminate is never called.
C30_NeverAborts == ~aborted


\* =================================================================
\* Byte level: DTXMessage::Encode, DTXMessage::ParseHeader and
\* DTXMessage::Decode.  A frame is a sequence of bytes (0 .. 255); header
\* fields keep their widths and offsets.
HeaderLength == 32
PayloadHeaderLength == 16
LZ4Compressed == 1799
DTXError == 4

\* WriteBE32(Magic) with Magic = 0x795B3D1F, and the same bytes reversed.
MagicBE == <<121, 91, 61, 31>>
MagicLE == <<31, 61, 91, 121>>

Zeros(n) == [i \in 1 .. n |-> 0]

\* WriteLE32(p, val)
WriteLE32(val) ==
    <<val % 256, (val \div 256) % 256, (val \div 65536) % 256,
      (val \div 16777216) % 256>>

\* ReadLE32(p + off)
ReadLE32(p, off) ==
    p[off + 1] + 256 * p[off + 2] + 65536 * p[off + 3]
    + 16777216 * p[off + 4]

\* A message as Encode reads it and as Decode builds it.
WireMsg(id, conv, ch, er, type, aux, payload) ==
    [identifier |-> id, conversationIndex |-> conv, channelCode |-> ch,
     expectsReply |-> er, messageType |-> type, flags |-> 0,
     auxiliary |-> aux, payload |-> payload]

\* DTXMessage::Encode: the single frame it returns.
Encode(m) ==
    LET auxLen == Len(m.auxiliary)
        payloadLen == Len(m.payload)
        auxLenWithHeader ==
            IF auxLen > 0 THEN auxLen + PayloadHeaderLength ELSE 0
        totalPayloadLen == auxLenWithHeader + payloadLen
        hasPayload == totalPayloadLen > 0 \/ m.messageType = Ack
        auxSection ==
            IF auxLen > 0
              THEN <<240, 1>> \o Zeros(6) \o WriteLE32(auxLen) \o Zeros(4)
                   \o m.auxiliary
              ELSE <<>>
        payloadSection ==
            IF hasPayload
              THEN WriteLE32(m.messageType) \o WriteLE32(auxLenWithHeader)
                   \o WriteLE32(totalPayloadLen) \o WriteLE32(m.flags)
                   \o auxSection \o m.payload
              ELSE <<>>
    IN  MagicBE \o WriteLE32(HeaderLength) \o <<0, 0>> \o <<1, 0>>
        \o WriteLE32(Len(payloadSection)) \o WriteLE32(m.identifier)
        \o WriteLE32(m.conversationIndex) \o WriteLE32(m.channelCode)
        \o WriteLE32(m.expectsReply) \o payloadSection

\* DTXMessage::ParseHeader: ok is its return value, the other fields are
\* outHeader (left at their defaults when it returns false).
ParseHeader(data) ==
    LET magicOk == \/ SubSeq(data, 1, 4) = MagicLE
                   \/ SubSeq(data, 1, 4) = MagicBE
    IN  IF Len(data) >= HeaderLength /\ magicOk
          THEN [ok |-> TRUE,
                fragmentIndex |-> data[9] + 256 * data[10],
                fragmentCount |-> data[11] + 256 * data[12],
                messageLength |-> ReadLE32(data, 12),
                identifier |-> ReadLE32(data, 16),
                conversationIndex |-> ReadLE32(data, 20),
                channelCode |-> ReadLE32(data, 24),
                expectsReply |-> ReadLE32(data, 28)]
          ELSE [ok |-> FALSE, fragmentIndex |-> 0, fragmentCount |-> 1,
                messageLength |-> 0, identifier |-> 0,
                conversationIndex |-> 0, channelCode |-> 0,
                expectsReply |-> 0]

\* DTXMessage::Decode(header, data, length) for a payload section that is
\* not LZ4 compressed: a default-constructed message takes the header; the
\* payload header is copied when 16 bytes are there; parsePayloadSection
\* fills auxiliary and payload unless it rejects the section.
Decode(header, data) ==
    LET length == Len(data)
        msg == WireMsg(header.identifier, header.conversationIndex,
                       header.channelCode, header.expectsReply, 0,
                       <<>>, <<>>)
        messageType == ReadLE32(data, 0)
        auxiliaryLength == ReadLE32(data, 4)
        totalPayloadLength == ReadLE32(data, 8)
        remaining == length - PayloadHeaderLength
        withHeader == [msg EXCEPT !.messageType = messageType,
                                  !.flags = ReadLE32(data, 12)]
        rejected == \/ totalPayloadLength > remaining
                    \/ auxiliaryLength > totalPayloadLength
                    \/ messageType = 0
                    \/ messageType = LZ4Compressed
        aux == IF /\ auxiliaryLength > 0
                  /\ auxiliaryLength <= remaining
                  /\ auxiliaryLength > PayloadHeaderLength
                 THEN SubSeq(data, 2 * PayloadHeaderLength + 1,
                             PayloadHeaderLength + auxiliaryLength)
                 ELSE <<>>
        payload == IF remaining > auxiliaryLength
                     THEN SubSeq(data, PayloadHeaderLength
                                       + auxiliaryLength + 1, length)
                     ELSE <<>>
    IN  IF length < PayloadHeaderLength THEN msg
        ELSE IF rejected THEN withHeader
        ELSE [withHeader EXCEPT !.auxiliary = aux, !.payload = payload]

\* The parsePayloadSection lambda of Decode on a buffer: whether it accepts
\* the section and the payload header, auxiliary and payload it then sets.
ParsePayloadSection(buf) ==
    LET len == Len(buf)
        messageType == ReadLE32(buf, 0)
        auxiliaryLength == ReadLE32(buf, 4)
        totalPayloadLength == ReadLE32(buf, 8)
        remaining == len - PayloadHeaderLength
        ok == /\ len >= PayloadHeaderLength
              /\ totalPayloadLength <= remaining
              /\ auxiliaryLength <= totalPayloadLength
              /\ messageType # 0
              /\ messageType # LZ4Compressed
    IN  IF ~ok THEN [ok |-> FALSE]
        ELSE [ok |-> TRUE, messageType |-> messageType,
              auxiliaryLength |-> auxiliaryLength,
              auxiliary |->
                  IF auxiliaryLength > PayloadHeaderLength
                    THEN SubSeq(buf, 2 * PayloadHeaderLength + 1,
                                PayloadHeaderLength + auxiliaryLength)
                    ELSE <<>>,
              payload |->
                  IF remaining > auxiliaryLength
                    THEN SubSeq(buf, PayloadHeaderLength + auxiliaryLength + 1,
                                len)
                    ELSE <<>>]

\* memcmp(scan + i, "bplist", 6) == 0
PlistMagicAt(scan, i) ==
    /\ i + 6 <= Len(scan)
    /\ SubSeq(scan, i + 1, i + 6) = <<98, 112, 108, 105, 115, 116>>

\* a < b for two big-endian byte strings of one length (readBE64 values).
RECURSIVE BELess(_, _)
BELess(a, b) ==
    /\ a # <<>>
    /\ \/ Head(a) < Head(b)
       \/ Head(a) = Head(b) /\ BELess(Tail(a), Tail(b))

\* The value of a big-endian 64-bit field when it is below 2^31, else -1.
BESmall(p) ==
    IF SubSeq(p, 1, 4) = <<0, 0, 0, 0>> /\ p[5] < 128
      THEN 16777216 * p[5] + 65536 * p[6] + 256 * p[7] + p[8]
      ELSE -1

\* The trailer test of findPlistLength for a property list of `end` bytes
\* starting at 0-based offset `start` of scan.
PlistTrailerOk(scan, start, end) ==
    LET trailer == SubSeq(scan, start + end - 31, start + end)
        offsetIntSize == trailer[7]
        objectRefSize == trailer[8]
        numObjects == SubSeq(trailer, 9, 16)
        topObject == SubSeq(trailer, 17, 24)
        offsetTableOffset == BESmall(SubSeq(trailer, 25, 32))
        n == BESmall(numObjects)
    IN  /\ offsetIntSize \in 1 .. 8
        /\ objectRefSize \in 1 .. 8
        /\ numObjects # <<0, 0, 0, 0, 0, 0, 0, 0>>
        /\ SubSeq(numObjects, 1, 4) = <<0, 0, 0, 0>>
        /\ BELess(topObject, numObjects)
        /\ offsetTableOffset >= 0
        /\ offsetTableOffset < end - 32
        /\ n >= 0
        /\ n <= (end - 32 - offsetTableOffset) \div offsetIntSize

\* The tryBplistFallback lambda of Decode: whether a "bplist" magic is
\* found and the payload it then sets (auxiliary stays empty, the payload
\* header's auxiliaryLength becomes 0).
TryBplistFallback(scan) ==
    LET scanLen == Len(scan)
        hits == {i \in 0 .. (scanLen - 6) : PlistMagicAt(scan, i)}
        found == Min(hits)
        maxLen == scanLen - found
        nexts == {i \in 6 .. (maxLen - 6) : PlistMagicAt(scan, found + i)}
        ends == {e \in 32 .. maxLen : PlistTrailerOk(scan, found, e)}
        plistLen == IF nexts # {} THEN Min(nexts)
                    ELSE IF ends # {}
                      THEN CHOOSE e \in ends : \A x \in ends : x <= e
                    ELSE maxLen
    IN  IF scanLen < 8 \/ hits = {} THEN [ok |-> FALSE]
        ELSE [ok |-> TRUE,
              payload |-> SubSeq(scan, found + 1, found + plistLen)]

\* DTXMessage::Decode on an LZ4Compressed payload section, from the point
\* where LZ4::Decompress has returned the non-empty bytes `decompressed`:
\* in.auxiliaryLength is the outer payload header's auxiliary length and
\* in.origType the message type read before the compressed bytes.
DecodeDecompressed(in) ==
    LET decompressed == in.decompressed
        size == Len(decompressed)
        parsed == ParsePayloadSection(decompressed)
        bplist == TryBplistFallback(decompressed)
        auxLen == in.auxiliaryLength
    IN  IF parsed.ok
          THEN [messageType |-> parsed.messageType,
                auxiliaryLength |-> parsed.auxiliaryLength,
                auxiliary |-> parsed.auxiliary, payload |-> parsed.payload]
        ELSE IF bplist.ok
          THEN [messageType |-> in.origType, auxiliaryLength |-> 0,
                auxiliary |-> <<>>, payload |-> bplist.payload]
        ELSE [messageType |-> in.origType, auxiliaryLength |-> auxLen,
              auxiliary |-> IF auxLen > 0 /\ auxLen <= size
                              THEN SubSeq(decompressed, 1, auxLen)
                              ELSE <<>>,
              payload |-> IF size > auxLen
                            THEN SubSeq(decompressed, auxLen + 1, size)
                            ELSE <<>>]

\* Single-frame messages handed to Encode.
MessageTypes == {Ack, MethodInvocation, ResponseWithPayload, DTXError}
Messages ==
    {WireMsg(id, conv, ch, er, type, aux, payload) :
        id \in {1, 2}, conv \in {0, 1}, ch \in {0, 1}, er \in {0, 1},
        type \in MessageTypes, aux \in {<<>>, <<10, 0, 0, 0, 10, 0, 0, 0>>},
        payload \in {<<>>, <<5, 6>>}}

\* =================================================================
\* NSObject values, NSKeyedArchiver::Archive, NSKeyedUnarchiver::Unarchive
\* and DTXPrimitiveDict.  An NSObject is its type tag and its value.  A
\* signed value is an integer; an unsigned 64-bit value is kept as its
\* eight bytes, least significant first, so that no value loses width.
NSObj(type, val) == [type |-> type, val |-> val]
NullObj == NSObj("Null", 0)

\* The n bytes of val, least significant first, for 0 <= val < 2^31.
LEBytes(val, n) == [i \in 1 .. n |-> IF i <= 4 THEN WriteLE32(val)[i] ELSE 0]

\* static_cast<uintN_t>(v), as n = N / 8 bytes: two's complement.
ToUnsigned(v, n) ==
    IF v >= 0 THEN LEBytes(v, n)
    ELSE [i \in 1 .. n |-> 255 - LEBytes(0 - v - 1, n)[i]]

\* static_cast<intN_t>(the value of the bytes b)
ToSigned(b) ==
    IF b[Len(b)] >= 128
      THEN 0 - ReadLE32([i \in 1 .. 4 |-> 255 - b[i]], 0) - 1
      ELSE ReadLE32(b, 0)

\* ---- NSKeyedArchiver.  The archive is the property list
\* {$archiver, $version, $top: {root: UID}, $objects: [...]}; a node of
\* $objects is a record with its plist kind.  An integer node holds 64
\* bits, whether made by plist_new_int or by plist_new_uint.
PlistNull == [kind |-> "string", val |-> "$null"]

\* ArchiverContext::AddObject: <<uid, $objects afterwards>>
AddObject(objects, node) == <<Len(objects), Append(objects, node)>>

\* ArchiverContext::Encode, EncodeArray: <<uid, $objects afterwards>>
RECURSIVE ArchiverEncode(_, _)
ArchiverEncode(objects, obj) ==
    LET EncodeItems[k \in 0 .. Len(obj.val)] ==
            IF k = 0 THEN <<<<>>, objects>>
            ELSE LET prev == EncodeItems[k - 1]
                     item == ArchiverEncode(prev[2], obj.val[k])
                 IN  <<Append(prev[1], item[1]), item[2]>>
    IN  CASE obj.type = "Null" -> <<0, objects>>
          [] obj.type = "Bool" ->
               AddObject(objects, [kind |-> "bool", val |-> obj.val])
          [] obj.type \in {"Int32", "Int64"} ->
               AddObject(objects,
                         [kind |-> "int", val |-> ToUnsigned(obj.val, 8)])
          [] obj.type = "UInt64" ->
               AddObject(objects, [kind |-> "int", val |-> obj.val])
          [] obj.type \in {"Float32", "Float64"} ->
               AddObject(objects, [kind |-> "real", val |-> obj.val])
          [] obj.type = "String" ->
               AddObject(objects, [kind |-> "string", val |-> obj.val])
          [] obj.type = "Data" ->
               AddObject(objects, [kind |-> "data", val |-> obj.val])
          [] obj.type = "Array" ->
               LET items == EncodeItems[Len(obj.val)]
                   class == AddObject(items[2],
                                [kind |-> "class", val |-> "NSArray"])
               IN  AddObject(class[2],
                             [kind |-> "dict", objs |-> items[1],
                              class |-> class[1]])

\* "bplist00": the head of what plist_to_bin writes.  The body of the
\* binary property list is libplist's and is kept as one cell holding the
\* property list.
BplistMagic == <<98, 112, 108, 105, 115, 116, 48, 48>>

\* NSKeyedArchiver::Archive(root)
Archive(root) ==
    LET enc == ArchiverEncode(<<PlistNull>>, root)
    IN  BplistMagic \o <<[top |-> enc[1], objects |-> enc[2]]>>

\* plist_from_bin, then plist_from_xml: a null root unless the bytes are a
\* property list.
PlistParses(data) == Len(data) = 9 /\ SubSeq(data, 1, 8) = BplistMagic

\* DecodeValue / DecodeObject / DecodePrimitive / DecodeNSArray on the
\* object with the given UID.
RECURSIVE DecodeValue(_, _)
DecodeValue(objects, uid) ==
    IF uid + 1 > Len(objects) THEN NullObj
    ELSE LET node == objects[uid + 1]
         IN  CASE node.kind = "string" ->
                    IF node.val = "$null" THEN NullObj
                    ELSE NSObj("String", node.val)
               [] node.kind = "bool" -> NSObj("Bool", node.val)
               [] node.kind = "int" ->
                    IF node.val[8] >= 128 THEN NSObj("UInt64", node.val)
                    ELSE NSObj("Int64", ToSigned(node.val))
               [] node.kind = "real" -> NSObj("Float64", node.val)
               [] node.kind = "data" -> NSObj("Data", node.val)
               [] node.kind = "dict" ->
                    NSObj("Array", [i \in 1 .. Len(node.objs) |->
                                      DecodeValue(objects, node.objs[i])])
               [] OTHER -> NullObj

\* NSKeyedUnarchiver::Unarchive(data, length)
Unarchive(data) ==
    IF Len(data) = 0 THEN NullObj
    ELSE IF ~PlistParses(data) THEN NullObj
    ELSE DecodeValue(data[9].objects, data[9].top)

\* ---- DTXPrimitiveDict
PDString == 1
PDByteArray == 2
PDUInt32 == 3
PDInt64 == 6
PDNull == 10

\* DTXPrimitiveDict::EncodeEntry
EncodeEntry(item) ==
    WriteLE32(10) \o
    CASE item.type = "Null" -> WriteLE32(PDNull)
      [] item.type = "Int32" ->
           WriteLE32(PDUInt32) \o ToUnsigned(item.val, 4)
      [] item.type = "UInt64" -> WriteLE32(PDInt64) \o item.val
      [] item.type = "Int64" ->
           WriteLE32(PDInt64) \o ToUnsigned(item.val, 8)
      [] OTHER ->
           LET archived == Archive(item)
           IN  WriteLE32(PDByteArray) \o WriteLE32(Len(archived))
               \o archived

\* DTXPrimitiveDict::Encode
RECURSIVE PrimitiveDictEncode(_)
PrimitiveDictEncode(items) ==
    IF items = <<>> THEN <<>>
    ELSE EncodeEntry(Head(items)) \o PrimitiveDictEncode(Tail(items))

\* DTXPrimitiveDict::DecodeEntries, from the given offset on
RECURSIVE DecodeEntries(_, _)
DecodeEntries(data, offset) ==
    LET length == Len(data)
        type == ReadLE32(data, offset + 4)
        at == offset + 8
        entryLen == ReadLE32(data, at)
    IN  IF offset + 8 > length THEN <<>>
        ELSE CASE type = PDNull -> <<NullObj>> \o DecodeEntries(data, at)
               [] type = PDUInt32 ->
                    IF at + 4 > length THEN <<>>
                    ELSE <<NSObj("Int32",
                                 ToSigned(SubSeq(data, at + 1, at + 4)))>>
                         \o DecodeEntries(data, at + 4)
               [] type = PDInt64 ->
                    IF at + 8 > length THEN <<>>
                    ELSE <<NSObj("UInt64", SubSeq(data, at + 1, at + 8))>>
                         \o DecodeEntries(data, at + 8)
               [] type \in {PDString, PDByteArray} ->
                    IF at + 4 > length THEN <<>>
                    ELSE IF at + 4 + entryLen > length THEN <<>>
                    ELSE <<IF entryLen > 0
                             THEN Unarchive(SubSeq(data, at + 5,
                                                   at + 4 + entryLen))
                             ELSE NullObj>>
                         \o DecodeEntries(data, at + 4 + entryLen)
               [] OTHER -> <<NullObj>>


\* ---- the conversions, applied to bounded inputs
\* NSObject leaves and the arrays of up to two of them.
Leaves ==
    <<NullObj, NSObj("Bool", TRUE), NSObj("Int32", 5), NSObj("Int32", 0 - 1),
      NSObj("Int64", 7), NSObj("Int64", 0 - 1), NSObj("UInt64", LEBytes(3, 8)),
      NSObj("UInt64", [i \in 1 .. 8 |-> 255]), NSObj("Float32", 2),
      NSObj("Float64", 2), NSObj("String", "abc"), NSObj("Data", <<1, 2>>)>>

\* Primitive arguments: null, signed 32 and 64 bit, unsigned 64 bit,
\* string and object items.
PrimitiveArgs ==
    <<NullObj, NSObj("Int32", 5), NSObj("Int32", 0 - 1), NSObj("Int64", 7),
      NSObj("Int64", 0 - 1), NSObj("UInt64", LEBytes(3, 8)),
      NSObj("UInt64", [i \in 1 .. 8 |-> 255]), NSObj("String", "abc"),
      NSObj("Array", <<NSObj("String", "abc")>>)>>

\* Byte strings handed to Unarchive: three that are no property list and
\* two archives.
ArchiveBytes ==
    <<<<1, 2, 3>>, <<98, 112, 108>>, BplistMagic, Archive(NullObj),
      Archive(NSObj("String", "abc"))>>

\* Decompressed contents of LZ4Compressed messages: too short for any
\* fallback; without a payload header and without a magic; a property list
\* after two auxiliary bytes; a payload section with its header; two
\* property lists; and a property list with a trailer, followed by junk.
PlistWithTrailer ==
    BplistMagic \o <<9>> \o Zeros(6) \o <<1, 1>> \o Zeros(7) \o <<1>>
    \o Zeros(16)
Decompressed ==
    <<<<1, 2, 3>>,
      <<1, 2, 3, 4, 5, 6, 7, 8, 9>>,
      <<7, 8>> \o BplistMagic,
      BplistMagic,
      WriteLE32(MethodInvocation) \o WriteLE32(0) \o WriteLE32(2)
          \o WriteLE32(0) \o <<5, 6>>,
      BplistMagic \o <<1>> \o BplistMagic \o <<2>>,
      PlistWithTrailer \o <<3, 3, 3>>>>
LZ4Inputs ==
    {[auxiliaryLength |-> a, origType |-> MethodInvocation,
      decompressed |-> Decompressed[i]] :
        a \in {0, 2, 48}, i \in DOMAIN Decompressed}

CodecInput(op, in) == [op |-> op, in |-> in, out |-> <<>>, done |-> FALSE]

InitCodec ==
    /\ ConnectedState
    /\ stream = StreamIdle
    /\ \/ \E m \in Messages : codec = CodecInput("message", m)
       \/ codec = CodecInput("primitive", <<>>)
       \/ \E i \in DOMAIN PrimitiveArgs :
            codec = CodecInput("primitive", <<PrimitiveArgs[i]>>)
       \/ \E i, j \in DOMAIN PrimitiveArgs :
            codec = CodecInput("primitive",
                               <<PrimitiveArgs[i], PrimitiveArgs[j]>>)
       \/ \E i \in DOMAIN Leaves : codec = CodecInput("archive", Leaves[i])
       \/ codec = CodecInput("archive", NSObj("Array", <<>>))
       \/ \E i \in DOMAIN Leaves :
            codec = CodecInput("archive", NSObj("Array", <<Leaves[i]>>))
       \/ \E i, j \in DOMAIN Leaves :
            codec = CodecInput("archive",
                               NSObj("Array", <<Leaves[i], Leaves[j]>>))
       \/ \E i \in DOMAIN ArchiveBytes :
            codec = CodecInput("unarchive", ArchiveBytes[i])
       \/ \E in \in LZ4Inputs : codec = CodecInput("lz4", in)

\* One conversion, by the operation the input asks for:
\*   message:   Encode, then ParseHeader and Decode of the bytes after
\*              the header, as ReceiveLoop does;
\*   primitive: DTXPrimitiveDict::Encode, then Decode;
\*   archive:   NSKeyedArchiver::Archive, then Unarchive;
\*   unarchive: NSKeyedUnarchiver::Unarchive of the given bytes;
\*   lz4:       DTXMessage::Decode after a successful decompression.
Codec_Apply ==
    /\ codec.op # "none"
    /\ ~codec.done
    /\ LET frame == Encode(codec.in)
           out == CASE codec.op = "message" ->
                         Decode(ParseHeader(frame),
                                SubSeq(frame, HeaderLength + 1, Len(frame)))
                    [] codec.op = "primitive" ->
                         DecodeEntries(PrimitiveDictEncode(codec.in), 0)
                    [] codec.op = "archive" -> Unarchive(Archive(codec.in))
                    [] codec.op = "unarchive" -> Unarchive(codec.in)
                    [] codec.op = "lz4" -> DecodeDecompressed(codec.in)
       IN  codec' = [codec EXCEPT !.out = out, !.done = TRUE]
    /\ UNCHANGED <<connVars, transVars, nextObj, chan, waiter, caller, rx,
                   main, lastDelivery, aborted, stream>>

NextCodec == Codec_Apply

SpecCodec == InitCodec /\ [][NextCodec]_vars

\* Two NSObjects equal in type and in value.
RECURSIVE SameObject(_, _)
SameObject(a, b) ==
    /\ a.type = b.type
    /\ IF a.type = "Array"
         THEN /\ Len(a.val) = Len(b.val)
              /\ \A i \in 1 .. Len(a.val) : SameObject(a.val[i], b.val[i])
         ELSE a.val = b.val

\* C26: for every single-frame message m, ParseHeader and Decode applied to
\* Encode(m) give a message with m's identifier, conversation index,
\* channel code, expects_reply, message type, auxiliary bytes and payload
\* bytes.
C26_MessageRoundTrip ==
    codec.op = "message" /\ codec.done =>
        /\ codec.out.identifier = codec.in.identifier
        /\ codec.out.conversationIndex = codec.in.conversationIndex
        /\ codec.out.channelCode = codec.in.channelCode
        /\ codec.out.expectsReply = codec.in.expectsReply
        /\ codec.out.messageType = codec.in.messageType
        /\ codec.out.auxiliary = codec.in.auxiliary
        /\ codec.out.payload = codec.in.payload

\* C27: for every list xs of primitive arguments, Decode(Encode(xs)) has
\* the length of xs and each element has the type tag and the value of the
\* corresponding element of xs.
C27_PrimitiveRoundTrip ==
    codec.op = "primitive" /\ codec.done =>
        /\ Len(codec.out) = Len(codec.in)
        /\ \A i \in 1 .. Len(codec.in) : SameObject(codec.out[i], codec.in[i])

\* C28: for every acyclic value v of the supported leaf types and
\* containers, Unarchive(Archive(v)) equals v in type and value.
C28_ArchiveRoundTrip ==
    codec.op = "archive" /\ codec.done => SameObject(codec.out, codec.in)

\* C29: decoding bytes that are no parseable property list fails with an
\* error, an outcome unlike the successful decoding of a null value.
C29_MalformedIsAnError ==
    codec.op = "unarchive" /\ codec.done /\ ~PlistParses(codec.in) =>
        ~SameObject(codec.out, Unarchive(Archive(NullObj)))


\* =================================================================
\* DTXTransport::Receive on a stream of bytes, and the part of
\* DTXConnection::ReceiveLoop that takes its result.  stream.bytes is the
\* input not yet read; the peer closes the stream after its last byte, so
\* that a read past the end fails as a non-transient error.
MaxScan == 4        \* maxScan, for 1024 * 1024

\* isMagic(p)
IsMagic(p) == SubSeq(p, 1, 4) \in {MagicBE, MagicLE}

\* DTXTransport::Receive, one ReadExact per step: the header (pc
\* "receive"), one byte of the resync scan (pc "scan"), the body (pc
\* "body").  ReadExact(n) succeeds when n bytes are left; otherwise it sets
\* m_connected = false and leaves the last read error set.
Receive ==
    /\ stream.pc \in {"receive", "scan", "body"}
    /\ connected
    /\ LET header == ParseHeader(stream.buf)
           need == CASE stream.pc = "receive" -> HeaderLength
                     [] stream.pc = "scan" -> 1
                     [] stream.pc = "body" ->
                          IF header.fragmentCount > 1
                             /\ header.fragmentIndex = 0
                            THEN 0 ELSE header.messageLength
           readOk == tOpen /\ Len(stream.bytes) >= need
           got == SubSeq(stream.bytes, 1, need)
           rest == SubSeq(stream.bytes, need + 1, Len(stream.bytes))
           buf == CASE stream.pc = "receive" -> got
                    [] stream.pc = "scan" -> Tail(stream.buf) \o got
                    [] stream.pc = "body" -> stream.buf
           scanned == CASE stream.pc = "receive" -> 0
                        [] stream.pc = "scan" -> stream.scanned + 1
                        [] stream.pc = "body" -> stream.scanned
           giveUp == stream.pc = "scan" /\ scanned >= MaxScan
                     /\ ~IsMagic(buf)
       IN  IF ~readOk
             THEN \* return {} after a failed read
                  /\ stream' = [stream EXCEPT !.pc = "result", !.res = <<>>,
                                              !.bytes = <<>>]
                  /\ tOpen' = FALSE
                  /\ lastReadFatal' = TRUE
             ELSE /\ stream' =
                       [stream EXCEPT
                          !.bytes = rest, !.buf = buf, !.scanned = scanned,
                          !.exhausted = giveUp,
                          !.res = IF stream.pc = "body" THEN buf \o got
                                  ELSE <<>>,
                          !.pc = CASE stream.pc = "body" -> "result"
                                   [] IsMagic(buf) -> "body"
                                   [] giveUp -> "result"
                                   [] OTHER -> "scan"]
                  /\ lastReadFatal' = FALSE
                  /\ UNCHANGED tOpen
    /\ UNCHANGED <<connVars, wire, nextObj, chan, waiter, caller, rx, main,
                   lastDelivery, aborted, codec>>

\* ReceiveLoop, from the return of Receive to the next iteration: an empty
\* result ends the loop unless the last read reported a timeout or success
\* with no bytes; a frame is parsed and, when it is a single-frame message,
\* decoded and dispatched (a fragment goes to the fragment decoder).
ReceiveLoop_Result ==
    /\ stream.pc = "result"
    /\ LET header == ParseHeader(stream.res)
           msg == Decode(header, SubSeq(stream.res, HeaderLength + 1,
                                        Len(stream.res)))
       IN  IF stream.res = <<>>
             THEN IF ~lastReadFatal
                    THEN /\ stream' = [stream EXCEPT !.pc = "receive",
                                                     !.exhausted = FALSE]
                         /\ UNCHANGED connected
                    ELSE /\ stream' = [stream EXCEPT !.pc = "ended",
                                                     !.exhausted = FALSE]
                         /\ connected' = FALSE
             ELSE /\ stream' =
                       [stream EXCEPT
                          !.pc = "receive", !.res = <<>>,
                          !.out = IF header.ok /\ header.fragmentCount <= 1
                                    THEN Append(@, msg) ELSE @]
                  /\ UNCHANGED connected
    /\ UNCHANGED <<chanMap, chanMutex, nextChannelCode, rxThread,
                   handshakeReceived, pending, transVars, nextObj, chan,
                   waiter, caller, rx, main, lastDelivery, aborted, codec>>

\* The input streams: encode(m1) || noise || encode(m2).  The noise is made
\* of the magic's bytes and zero, holds neither byte order of the magic and
\* is at most MaxScan long, or it is MaxScan + 1 or MaxScan + 2 zeros.
NoiseBytes == {0, 31, 61, 91, 121}
ContainsMagic(s) ==
    \E i \in 1 .. Len(s) : i + 3 <= Len(s) /\ IsMagic(SubSeq(s, i, i + 3))
Noises ==
    {s \in UNION {[1 .. n -> NoiseBytes] : n \in 0 .. MaxScan} :
        ~ContainsMagic(s)}
    \cup {Zeros(n) : n \in (MaxScan + 1) .. (MaxScan + 2)}
FirstMessage == WireMsg(1, 0, 1, 1, MethodInvocation, <<>>, <<5, 6>>)
SecondMessages ==
    {WireMsg(2, 0, 1, 0, MethodInvocation, <<10, 0, 0, 0, 10, 0, 0, 0>>,
             <<7>>),
     WireMsg(1, 1, 1, 0, ResponseWithPayload, <<>>, <<8, 9>>)}

InitStream ==
    /\ ConnectedState
    /\ codec = CodecIdle
    /\ \E noise \in Noises, m2 \in SecondMessages :
         stream = [StreamIdle EXCEPT
                     !.pc = "receive",
                     !.bytes = Encode(FirstMessage) \o noise \o Encode(m2),
                     !.sent = <<FirstMessage, m2>>,
                     !.noise = noise]

NextStream == Receive \/ ReceiveLoop_Result

SpecStream == InitStream /\ [][NextStream]_vars

\* C22: with the input encode(m1) || noise || encode(m2), the noise at most
\* the scan limit long and holding neither byte order of the magic, the
\* receive worker dispatches exactly m1 and then m2 and nothing else.
C22_ResyncSkipsNoise ==
    /\ stream.pc = "ended"
    /\ Len(stream.noise) <= MaxScan
    /\ ~ContainsMagic(stream.noise)
    => stream.out = stream.sent

\* C23: when the resync scan passes its limit without finding the magic,
\* the receive loop ends and the connection becomes not connected instead
\* of reading further frames.
C23_ScanLimitCloses ==
    [][stream.pc = "result" /\ stream.exhausted
         => stream'.pc = "ended" /\ ~connected']_vars


\* C33: a received message changes a channel's next identifier only if its
\* conversation_index is 0 and its type is not Ack: whenever the receive
\* worker's SyncIdentifier store changes a counter, the message it is
\* processing is server-originated and not an Ack.
C33_SyncOnlyServerOriginated ==
    [][(rx.pc = "si_store"
        /\ \E o \in Objs : chan'[o].nextId # chan[o].nextId)
          => (rx.msg.conv = 0 /\ rx.msg.type # Ack)]_vars


\* C38: a channel handle never forwards a send to a destroyed connection:
\* when Disconnect(), which is all the destructor runs, has returned, every
\* channel that is still registered with the connection has been cancelled,
\* so that a later send on it stops at the cancelled check before it uses
\* m_connection.
C38_CancelledBeforeDestroyed ==
    main.pc = "d_done" =>
        \A c \in Codes :
            chanMap[c] # NoObj => chan[chanMap[c]].cancelled


\* C36: a channel's waiter map holds at most one waiter per identifier, and
\* it holds an entry only while the SendMessageSync call that registered it
\* is between registering the waiter and returning; with no such call in
\* progress on a channel its waiter map is empty.
SyncInProgress ==
    {"ss_send", "ss_senderr", "ss_wait", "ss_blocked", "ss_woke",
     "ss_erase", "ss_cleanup"}
C36_WaiterLifetime ==
    \A o \in Objs :
        /\ \A w1, w2 \in chan[o].waiters : w1.id = w2.id => w1 = w2
        /\ \A w \in chan[o].waiters :
              /\ caller[w.t].pc \in SyncInProgress
              /\ caller[w.t].ch = o
              /\ caller[w.t].id = w.id
        /\ (\A t \in Callers :
                ~(caller[t].ch = o /\ caller[t].pc \in SyncInProgress))
              => chan[o].waiters = {}
\* A call that registered a waiter has returned after its timeout and left
\* the map empty.
C36_Witness ==
    \E t \in Callers :
        /\ caller[t].pc = "ss_ret"
        /\ caller[t].timedOut
        /\ caller[t].sent
        /\ chan[caller[t].ch].waiters = {}


\* C35: when the bytes of an LZ4Compressed message decompress but do not
\* begin with a valid payload header, Decode takes them as
\* auxiliary || payload with the auxiliary length of the outer payload
\* header; a `bplist` magic inside them does not change that.
C35_AuxPayloadBeforeBplist ==
    (codec.op = "lz4" /\ codec.done
     /\ ~ParsePayloadSection(codec.in.decompressed).ok) =>
        LET d == codec.in.decompressed
            a == codec.in.auxiliaryLength
        IN  /\ codec.out.auxiliary =
                  (IF a > 0 /\ a <= Len(d) THEN SubSeq(d, 1, a) ELSE <<>>)
            /\ codec.out.payload =
                  (IF Len(d) > a THEN SubSeq(d, a + 1, Len(d)) ELSE <<>>)


\* =================================================================
\* Reassembly of scripted fragment streams, on a connection with a second
\* channel
\* =================================================================
\* The connection after Connect and one successful
\* MakeChannelWithIdentifier: channel code 1 is registered and the request
\* for it took the global channel's identifier 2.
TwoChannelState ==
    /\ connected = TRUE
    /\ chanMap = [c \in Codes |-> IF c \in {GlobalCode, FirstChannelCode}
                                    THEN c ELSE NoObj]
    /\ chanMutex = NoThread
    /\ nextChannelCode = FirstChannelCode + 1
    /\ rxThread = "running"
    /\ handshakeReceived = TRUE
    /\ pending = {}
    /\ tOpen = TRUE
    /\ lastReadFatal = FALSE
    /\ wire = {}
    /\ nextObj = 2
    /\ chan = [o \in Objs |->
                 IF o = 0 THEN [NewChannel(GlobalCode) EXCEPT !.nextId = 3]
                 ELSE IF o = 1 THEN NewChannel(FirstChannelCode)
                 ELSE NewChannel(NoObj)]
    /\ waiter = [t \in Callers |-> NewWaiter]
    /\ caller = [t \in Callers |-> CallerIdle]
    /\ rx = [RxIdle EXCEPT !.pc = "rx_loop"]
    /\ main = [MainIdle EXCEPT !.res = "Success", !.connects = 1,
                               !.hsSeen = TRUE, !.cch = 0]
    /\ lastDelivery = NoDelivery
    /\ aborted = FALSE

\* Fragment i of n of the message the peer sends on channel code c; all
\* these messages carry identifier 1, and fragment i > 0 carries i bytes
\* that name the channel and the fragment.
ScriptData(c, i) == [k \in 1 .. i |-> 64 * (c + 1) + i]
ScriptFrame(c, i, n) ==
    DataFrame(Msg(c, 1, 0, MethodInvocation, UserSel, FALSE, NoThread),
              i, n, ScriptData(c, i))
\* Fragments 1 .. k of the message on channel code c, in index order.
RECURSIVE ScriptBody(_, _)
ScriptBody(c, k) ==
    IF k = 0 THEN <<>> ELSE ScriptBody(c, k - 1) \o ScriptData(c, k)

\* Streams on the global channel alone, in which fragments may be missing
\* or repeated.
MaxScript == 3
LooseFrames ==
    {ScriptFrame(GlobalCode, i, n) :
        i \in 0 .. (MaxFragCount - 1), n \in 2 .. MaxFragCount}
LooseScripts ==
    UNION {[1 .. l -> {f \in LooseFrames : f.fidx < f.fcnt}] :
             l \in 1 .. MaxScript}
\* Streams that carry one message of MaxFragCount fragments on the global
\* channel and one of two fragments on channel code 1, both complete:
\* every fragment once, fragment 0 of a message before its others.
PairFrames ==
    {ScriptFrame(GlobalCode, i, MaxFragCount) : i \in 0 .. (MaxFragCount - 1)}
    \cup {ScriptFrame(FirstChannelCode, i, 2) : i \in 0 .. 1}
PairScripts ==
    {s \in [1 .. (MaxFragCount + 2) -> PairFrames] :
        /\ \A f \in PairFrames : \E k \in DOMAIN s : s[k] = f
        /\ \A j, k \in DOMAIN s :
              (s[j].m.ch = s[k].m.ch /\ s[j].fidx = 0 /\ s[k].fidx > 0)
                  => j < k}

InitReasm ==
    /\ TwoChannelState
    /\ codec = CodecIdle
    /\ \E s \in LooseScripts \cup PairScripts :
          stream = [StreamIdle EXCEPT !.sent = s]

\* The peer's stream arrives frame by frame.
NextReasm ==
    \/ RX_Loop
    \/ rx.n < Len(stream.sent) /\ RX_RecvFrame(stream.sent[rx.n + 1])
    \/ DM_Sync \/ SI_Store \/ DM_Route
    \/ CD_Check \/ CD_Handlers

SpecReasm == InitReasm /\ [][NextReasm]_vars

\* The frame the receive worker takes next, and whether the stream is one
\* of the two-channel streams.
ArrivingFrame == stream.sent[rx.n + 1]
PairStream == \E k \in DOMAIN stream.sent : stream.sent[k].m.ch # GlobalCode
FrameStep == rx.pc = "rx_recv" /\ rx'.n = rx.n + 1

\* C34: a message is reported complete and dispatched only when fragment 0
\* and every one of its expected_count - 1 distinct body fragments have
\* been received: on a single channel, each dispatch of a fragmented
\* message finds an entry that fragment 0 created and whose body fragments,
\* with the arriving one, are exactly 1 .. expected_count - 1.
C34_CompleteOnlyWhenAllReceived ==
    [][(FrameStep /\ ~PairStream /\ rx'.pc = "dm_sync") =>
          \E e \in pending :
              /\ e.id = ArrivingFrame.m.id
              /\ e.expectedCount >= 2
              /\ e.idxs \cup {ArrivingFrame.fidx}
                    = 1 .. (e.expectedCount - 1)]_vars

\* C37: two fragmented messages in flight on different channels with the
\* same identifier are reassembled independently: a frame's message is
\* dispatched exactly when the frame is the last of its own message's
\* fragments, and the dispatched body is the join of that message's own
\* fragments.
C37_IndependentReassembly ==
    [][(FrameStep /\ PairStream) =>
          LET f == ArrivingFrame
              own == {k \in 1 .. (rx.n + 1) : stream.sent[k].m.ch = f.m.ch}
          IN  /\ (rx'.pc = "dm_sync") <=> (Cardinality(own) = f.fcnt)
              /\ (rx'.pc = "dm_sync") =>
                    /\ rx'.msg.ch = f.m.ch
                    /\ rx'.body = ScriptBody(f.m.ch, f.fcnt - 1)]_vars


\* =================================================================
\* An established connection whose writes may fail: user threads send
\* asynchronously, nobody calls Disconnect, and the receive worker is
\* scheduled again and again
\* =================================================================
MaxWriteRecv == 1

\* The receive worker's own steps: every one of them but the arrival of a
\* frame, which is the peer's to decide.
WorkerStep ==
    \/ RX_Loop \/ RX_RecvClosed
    \/ DM_Sync \/ SI_Store \/ DM_Route
    \/ CD_Check \/ CD_Handlers

NextWrite ==
    \/ WorkerStep
    \/ \E f \in ChanFrames : rx.n < MaxWriteRecv /\ RX_RecvFrame(f)
    \/ RX_RecvError
    \/ \E t \in Callers : Start_Async(t)
    \/ \E t \in Callers : SendMessageAsync(t, BOOLEAN)

SpecWrite == InitChan /\ [][NextWrite]_vars /\ WF_vars(WorkerStep)

\* C39: after a failed write has marked the transport not connected, the
\* receive loop ends and the connection's connected flag becomes false,
\* with no call to Disconnect.
C39_LoopEndsAfterWriteFailure ==
    (~tOpen) ~> (rx.pc = "exited" /\ ~connected)


\* =================================================================
\* DTXChannel::DispatchMessage with the handler tables as state, the
\* handlers' own calls into the channel and the connection, and
\* SetMethodHandler / SetMessageHandler from a user thread
\* =================================================================
MaxHandlerRecv == 2

\* The lookup that finds nothing.
MethodHandlerNever(o, m) == FALSE
\* !selector.empty() and m_methodHandlers.find(selector) != end()
MethodHandlerFound(o, m) == m.sel # NoSel /\ m.sel \in chan[o].methods

\* if (!selector.empty()) { lock_guard lock(m_methodHandlerMutex);
\*   auto it = m_methodHandlers.find(selector);
\*   if (it != end) { it->second(message); return; } }
\* The handler is entered inside the lock_guard's scope.
CD_Method ==
    LET o == rx.ch IN
    /\ ~aborted
    /\ rx.pc = "cd_handlers"
    /\ rx.msg.sel # NoSel => chan[o].mhmx = NoThread
    /\ IF MethodHandlerFound(o, rx.msg)
         THEN /\ chan' = [chan EXCEPT ![o].mhmx = "rx"]
              /\ lastDelivery' = [kind |-> "method", msg |-> rx.msg,
                                  obj |-> o]
              /\ rx' = [rx EXCEPT !.pc = "in_handler"]
         ELSE /\ rx' = [rx EXCEPT !.pc = "cd_generic"]
              /\ UNCHANGED <<chan, lastDelivery>>
    /\ UNCHANGED <<connVars, transVars, nextObj, waiter, caller, main,
                   aborted, stream, codec>>

\* { lock_guard lock(m_handlerMutex); handler = m_messageHandler; }
\* if (handler) handler(message); else the message is logged as unhandled.
\* The copy is made under the lock; the lock is released before the call.
CD_Generic ==
    /\ ~aborted
    /\ rx.pc = "cd_generic"
    /\ IF chan[rx.ch].handler
         THEN /\ lastDelivery' = [kind |-> "default", msg |-> rx.msg,
                                  obj |-> rx.ch]
              /\ rx' = [rx EXCEPT !.pc = "in_handler"]
         ELSE /\ rx' = [rx EXCEPT !.pc = "rx_loop"]
              /\ UNCHANGED lastDelivery
    /\ UNCHANGED <<connVars, transVars, nextObj, chan, waiter, caller, main,
                   aborted, stream, codec>>

\* DTXChannel::SetMethodHandler(selector, handler) on channel object o:
\* lock_guard lock(m_methodHandlerMutex); m_methodHandlers[selector] = ...
\* th is the calling thread: "user", or "rx" for a call made by the handler
\* that is running on the receive worker.  A thread that already owns the
\* std::mutex locks it again: the behaviour is undefined; the call never
\* returns, or lock() throws and std::terminate is called.
SetMethodHandler(th, o, sel) ==
    /\ ~aborted
    /\ th = "rx" => (rx.pc = "in_handler" /\ o = rx.ch)
    /\ chan[o].mhmx \in {NoThread, th}
    /\ IF chan[o].mhmx = NoThread
         THEN /\ chan' = [chan EXCEPT ![o].methods = @ \cup {sel}]
              /\ rx' = IF th = "rx" THEN [rx EXCEPT !.pc = "h_ret"] ELSE rx
              /\ UNCHANGED aborted
         ELSE /\ \/ rx' = [rx EXCEPT !.pc = "h_deadlock"] /\ UNCHANGED aborted
                 \/ aborted' = TRUE /\ UNCHANGED rx
              /\ UNCHANGED chan
    /\ UNCHANGED <<connVars, transVars, nextObj, waiter, caller, main,
                   lastDelivery, stream, codec>>

\* DTXChannel::SetMessageHandler(handler): lock_guard lock(m_handlerMutex);
\* m_messageHandler = std::move(handler);  -- set is FALSE for an empty
\* std::function.
SetMessageHandler(th, o, set) ==
    /\ ~aborted
    /\ th = "rx" => (rx.pc = "in_handler" /\ o = rx.ch)
    /\ chan' = [chan EXCEPT ![o].handler = set]
    /\ rx' = IF th = "rx" THEN [rx EXCEPT !.pc = "h_ret"] ELSE rx
    /\ UNCHANGED <<connVars, transVars, nextObj, waiter, caller, main,
                   lastDelivery, aborted, stream, codec>>

\* The running handler calls DTXConnection::Disconnect(); the call runs on
\* the receive worker.
Handler_Disconnect ==
    /\ ~aborted
    /\ rx.pc = "in_handler"
    /\ main.pc = "ready"
    /\ main' = [main EXCEPT !.pc = "d_xchg", !.after = "h_disconnected",
                            !.on = "rx"]
    /\ rx' = [rx EXCEPT !.pc = "h_call"]
    /\ UNCHANGED <<connVars, transVars, nextObj, chan, waiter, caller,
                   lastDelivery, aborted, stream, codec>>

\* The handler returns; for a method handler the lock_guard of
\* DispatchMessage then releases m_methodHandlerMutex.
Handler_Return ==
    /\ ~aborted
    /\ rx.pc \in {"in_handler", "h_ret"}
    /\ chan' = [chan EXCEPT ![rx.ch].mhmx =
                                IF @ = "rx" THEN NoThread ELSE @]
    /\ rx' = [rx EXCEPT !.pc = "rx_loop"]
    /\ UNCHANGED <<connVars, transVars, nextObj, waiter, caller, main,
                   lastDelivery, aborted, stream, codec>>

\* Messages for the global channel with and without a selector.
HandlerFrames ==
    {Frame(Msg(GlobalCode, i, 0, MethodInvocation, s, FALSE, NoThread), 0, 1) :
        i \in PeerIds, s \in {UserSel, NoSel}}

NextHandler ==
    \/ RX_Loop
    \/ \E f \in HandlerFrames : rx.n < MaxHandlerRecv /\ RX_RecvFrame(f)
    \/ DM_Sync \/ SI_Store \/ DM_Route
    \/ CD_Check \/ CD_Method \/ CD_Generic
    \/ \E th \in {"user", "rx"} : SetMethodHandler(th, 0, UserSel)
    \/ \E th \in {"user", "rx"}, set \in BOOLEAN : SetMessageHandler(th, 0, set)
    \/ Handler_Disconnect \/ Handler_Return
    \/ D_Exchange \/ D_Lock \/ D_Cancel \/ D_Close \/ D_Join
    \/ Cancel

SpecHandler == InitChan /\ [][NextHandler]_vars

\* The receive worker is inside a user handler.
InHandler == rx.pc \in {"in_handler", "h_ret", "h_call", "h_deadlock"}

\* C31: no channel mutex is held by the dispatching thread while a user
\* handler runs, so the handler can call SetMethodHandler, SetMessageHandler
\* or a send on its channel.
C31_NoLockAcrossHandler ==
    InHandler =>
        \A o \in Objs : chan[o].mhmx # "rx" /\ chan[o].wmx # "rx"

\* C32: for a message with conversation_index 0 on a channel that is not
\* cancelled, the selector handler is invoked if one is registered for the
\* message's selector; otherwise the default handler if it is set;
\* otherwise none; and between two messages at most one handler is invoked.
\* The lookups are the receive worker's steps; a registration by another
\* thread in between changes what the next lookup finds.
C32_ExactlyOneHandler ==
    [][/\ (rx.pc = "cd_handlers" /\ rx.msg.conv = 0 /\ rx' # rx) =>
            IF rx.msg.sel # NoSel /\ rx.msg.sel \in chan[rx.ch].methods
              THEN /\ rx'.pc = "in_handler"
                   /\ lastDelivery'.kind = "method"
                   /\ lastDelivery'.msg = rx.msg
              ELSE rx'.pc = "cd_generic" /\ lastDelivery' = lastDelivery
       /\ (rx.pc = "cd_generic" /\ rx' # rx) =>
            IF chan[rx.ch].handler
              THEN /\ rx'.pc = "in_handler"
                   /\ lastDelivery'.kind = "default"
                   /\ lastDelivery'.msg = rx.msg
              ELSE rx'.pc = "rx_loop" /\ lastDelivery' = lastDelivery
       /\ (lastDelivery.kind \in HandlerKinds /\ rx.pc # "rx_loop") =>
            (lastDelivery' = lastDelivery /\ rx'.pc # "cd_generic")]_vars
\* A message whose selector has a handler, on a channel that also has a
\* default handler, is being handled by the selector handler.
C32_Witness ==
    /\ rx.pc = "in_handler"
    /\ lastDelivery.kind = "method"
    /\ chan[rx.ch].handler
    /\ rx.msg.sel \in chan[rx.ch].methods

\* C40: Disconnect() terminates from every calling context: a call made by
\* a handler on the receive worker does not end in the join of the thread
\* it runs on.
C40_DisconnectFromHandler ==
    ~(main.on = "rx" /\ main.pc = "d_join" /\ aborted)

====
